---- MODULE Spec2Model ----
(***************************************************************************)
(* Model of mdcat's state-machine renderer (src/state_write.rs) driven by  *)
(* push_tty (src/lib.rs).  The renderer folds write_event over a stream of *)
(* markdown events; each call takes the current State and StateData and    *)
(* returns the next ones, writing to the sink on the way.  After the last  *)
(* event push_tty calls finish.                                            *)
(*                                                                         *)
(* A State is an ownership chain NestedState(Box<State>, NestedState)      *)
(* ending in TopLevel.  The chain is modelled as a sequence of frames      *)
(* whose first element is the TopLevel frame and whose last element is     *)
(* the current (innermost) state; `return_to` is the sequence without its  *)
(* last element.                                                           *)
(***************************************************************************)
EXTENDS Integers, Sequences, FiniteSets, TLC

VARIABLES
    settings,   \* Settings: terminal capabilities, terminal width, base_dir
    state,      \* State: the ownership chain, TopLevel first
    data,       \* StateData: pending_links and next_link
    pc,         \* position of push_tty: "events", "done" (returned Ok),
                \* "failed" (returned Err) or "panicked"
    panic,      \* which panic! was hit ("" while none)
    open,       \* producer side: the tags opened and not yet closed
    conforming, \* producer side: every event so far was legal markdown nesting
                \* and, once the stream has ended, no tag was left open
    entered,    \* producer side: for each open tag of inline markup, the
                \* State in which its Start event was handled
    lists,      \* producer side: for each open list, its start number,
                \* whether an item of it was started, and how many were
                \* (counted for ordered lists)
    markers,    \* sink: indices of the '[index]' markers written, in order
    ref_lines,  \* sink: indices of the reference lines written, in order
    io_error,   \* sink: a write has returned an io::Error
    render,     \* which call of push_tty this is: "first" or "second"
    line_start, \* sink: the output stands at the start of a line (recorded
                \* in the renders of SpecLines only, None in the others)
    borders,    \* the code blocks started and the border lines written in
                \* this render (recorded in the renders of SpecCodeBlocks
                \* only, None in the others)
    hyperlink,  \* sink: "open" after a hyperlink-open escape, "closed"
                \* after a hyperlink-close escape and at the start,
                \* "broken" once two escapes of a kind have followed each
                \* other or a close came first
    machine,    \* render_machine::render: its RenderState, its producer
                \* and its position (None where render is not called)
    style_pass, \* render::style_text: the variables its closure owns and
                \* its producer (None where the pass is not run)
    margin_pass,\* render::inject_margins: the events it was given and the
                \* events it has yielded (None where the pass is not run)
    conversion  \* terminal::ansi::to_ansi: the style it is given and the
                \* style it returns (None where it is not called)

vars == <<settings, state, data, pc, panic, open, conforming, entered, lists,
          markers, ref_lines, io_error, render, line_start,
          borders, hyperlink, machine, style_pass, margin_pass, conversion>>

\* the variables of push_tty and of the code outside it
tty_vars == <<settings, state, data, pc, panic, open, conforming, entered,
              lists, markers, ref_lines, io_error, render, line_start,
              borders, hyperlink>>
other_vars == <<machine, style_pass, margin_pass, conversion>>

----------------------------------------------------------------------------
(* Bounds of the model. *)

\* longest ownership chain explored (TopLevel included)
MaxDepth == 5
\* deepest nesting of inline markup inside one block
MaxInline == 2
\* most reference links added in one render
MaxLinks == 2
\* largest number an ordered list counts to
MaxItemNo == 1
\* most styles render_machine's InlineStyle holds in parent_styles
MaxStyles == 4
\* most events of a stream handed to inject_margins
MaxStream == 4
\* most code blocks of a render whose borders are counted
MaxCodeBlocks == 1

----------------------------------------------------------------------------
(* Options, styles and the tokens written to the sink. *)

None == <<>>
Some(v) == <<v>>
is_some(o) == o # <<>>
unwrap(o) == o[1]

\* ansi_term::Style::new(): no colour, no attribute
Style_new ==
    [foreground |-> None, is_bold |-> FALSE, is_italic |-> FALSE,
     is_strikethrough |-> FALSE]

fg(style, colour) == [style EXCEPT !.foreground = Some(colour)]
bold(style) == [style EXCEPT !.is_bold = TRUE]
italic(style) == [style EXCEPT !.is_italic = TRUE]
strikethrough(style) == [style EXCEPT !.is_strikethrough = TRUE]

\* One write to the sink.  `what` names the text, `n`, `a`, `b` its parts;
\* `styled` says whether the text is wrapped by the ANSI codec.
Tok(what, n, a, b) ==
    [what |-> what, n |-> n, a |-> a, b |-> b,
     styled |-> FALSE, style |-> Style_new]

\* writeln!(writer)
Newline == Tok("newline", 0, "", "")
\* "x".repeat(n)
Repeat(glyph, n) == Tok("repeat", n, glyph, "")
\* format!("[{}]: {} {}", link.index, link.target, link.title)
RefLine(link) == Tok("ref", link.index, link.target, link.title)
\* format!("[{}]", index)
Marker(index) == Tok("marker", index, "", "")
\* the text of a Text or Code event
Str(text) == Tok("str", 0, text, "")

RuleGlyph == "rule"
BorderGlyph == "border"
HeadingGlyph == "heading"

----------------------------------------------------------------------------
(* Markdown events. *)

Levels == {1, 2}
\* a list that starts at 0 tells the numbers of its items from their count
ListStarts == {None, Some(0)}
\* CodeBlockKind::Indented and CodeBlockKind::Fenced(name)
Indented == [fenced |-> FALSE, name |-> ""]
Fenced(name) == [fenced |-> TRUE, name |-> name]
CodeBlockKinds == {Indented, Fenced(""), Fenced("rust"), Fenced("nosuchlang")}
Targets == {"http://example.com/world", "world.md"}
Titles == {""}
\* "/*" opens a block comment where it is read as code
Texts == {"lorem", "/*"}

Paragraph == [name |-> "Paragraph"]
Heading(level) == [name |-> "Heading", level |-> level]
BlockQuote == [name |-> "BlockQuote"]
CodeBlock(kind) == [name |-> "CodeBlock", kind |-> kind]
List(start) == [name |-> "List", start |-> start]
Item == [name |-> "Item"]
Emphasis == [name |-> "Emphasis"]
Strong == [name |-> "Strong"]
Strikethrough == [name |-> "Strikethrough"]
Link(type, target, title) ==
    [name |-> "Link", type |-> type, target |-> target, title |-> title]

\* an autolink <scheme:...> always has an absolute target
LinkTags ==
    {Link("Inline", ta, ti) : ta \in Targets, ti \in Titles}
    \cup {Link("Autolink", "http://example.com/world", "")}

Tags ==
    {Paragraph, BlockQuote, Item, Emphasis, Strong, Strikethrough}
    \cup {Heading(l) : l \in Levels}
    \cup {CodeBlock(k) : k \in CodeBlockKinds}
    \cup {List(s) : s \in ListStarts}
    \cup LinkTags

Start(tag) == [kind |-> "Start", tag |-> tag]
End(tag) == [kind |-> "End", tag |-> tag]
Text(text) == [kind |-> "Text", text |-> text]
Code(text) == [kind |-> "Code", text |-> text]
SoftBreak == [kind |-> "SoftBreak"]
HardBreak == [kind |-> "HardBreak"]
Rule == [kind |-> "Rule"]

IsStart(e, name) == e.kind = "Start" /\ e.tag.name = name
IsEnd(e, name) == e.kind = "End" /\ e.tag.name = name

\* End events carry the arguments of their Start; write_event ignores them
\* except for links, so one End per tag name is enough for the other tags.
EndTags ==
    {Paragraph, BlockQuote, Item, Emphasis, Strong, Strikethrough,
     Heading(1), CodeBlock(Indented), List(None)}
    \cup LinkTags

Events ==
    {Start(t) : t \in Tags} \cup {End(t) : t \in EndTags}
    \cup {Text(x) : x \in Texts} \cup {Code(x) : x \in Texts}
    \cup {SoftBreak, HardBreak, Rule}

\* the Start and the End events of the tags of one name
StartsTable ==
    [name \in {t.name : t \in Tags} |-> {e \in Events : IsStart(e, name)}]
EndsTable ==
    [name \in {t.name : t \in Tags} |-> {e \in Events : IsEnd(e, name)}]
StartsOf(name) == StartsTable[name]
EndsOf(name) == EndsTable[name]

----------------------------------------------------------------------------
(* States. *)

\* InlineState
InlineText == "InlineText"
InlineLink == "InlineLink"
ListItemText == "ListItemText"

\* ListItemType
Unordered == None
Ordered(no) == Some(no)

InlineAttrs(style, indent) == [style |-> style, indent |-> indent]

StyledBlockAttrs(margin_before, indent, style) ==
    [margin_before |-> margin_before, indent |-> indent, style |-> style]

HighlightBlockAttrs(syntax_token) == [syntax_token |-> syntax_token]

ListBlockAttrs(item_type, newline_before, indent, style) ==
    [item_type |-> item_type, newline_before |-> newline_before,
     indent |-> indent, style |-> style]

\* NestedState variants
StyledBlock(attrs) == [kind |-> "StyledBlock", attrs |-> attrs]
HighlightBlock(attrs) == [kind |-> "HighlightBlock", attrs |-> attrs]
ListBlock(attrs) == [kind |-> "ListBlock", attrs |-> attrs]
Inline(istate, attrs) == [kind |-> "Inline", state |-> istate, attrs |-> attrs]

\* State::TopLevel
TopLevel(attrs) == [kind |-> "TopLevel", attrs |-> attrs]

TopLevelAttrs_margin_before == [margin_before |-> TRUE]
TopLevelAttrs_default == [margin_before |-> FALSE]

\* State::NestedState(return_to, nested)
NestedState(return_to, nested) == Append(return_to, nested)

State_default == <<TopLevel(TopLevelAttrs_default)>>

\* the innermost state of a chain and the state it returns to
Current(s) == s[Len(s)]
ReturnTo(s) == SubSeq(s, 1, Len(s) - 1)
IsTopLevel(s) == Len(s) = 1 /\ s[1].kind = "TopLevel"

\* with_margin_before that moves the block to the left edge
with_margin_before_flush_left(attrs) ==
    [attrs EXCEPT !.margin_before = TRUE, !.indent = 0]

with_margin_before(attrs) == [attrs EXCEPT !.margin_before = TRUE]

\* to_next_item that keeps the number of the item
to_next_item_keeps_number(attrs) == [attrs EXCEPT !.newline_before = TRUE]

to_next_item(attrs) ==
    [attrs EXCEPT
        !.item_type = IF attrs.item_type = Unordered
                      THEN Unordered
                      ELSE Ordered(unwrap(attrs.item_type) + 1),
        !.newline_before = TRUE]

----------------------------------------------------------------------------
(* StateData: the link buffer. *)

\* width of Link.index and StateData.next_link (u16)
LinkIndexBits == 16

\* self.next_link += 1 leaves the range of u16
overflows(d) == d.next_link + 1 >= 2 ^ LinkIndexBits

LinkRec(index, target, title) ==
    [index |-> index, target |-> target, title |-> title]

StateData_default == [pending_links |-> <<>>, next_link |-> 1]

\* In a build without overflow checks next_link wraps around; a build with
\* overflow checks panics instead (On_InlineText_EndLink_overflow).
add_link(d, target, title) ==
    [data |-> [pending_links |->
                   Append(d.pending_links, LinkRec(d.next_link, target, title)),
               next_link |-> (d.next_link + 1) % (2 ^ LinkIndexBits)],
     index |-> d.next_link]

\* take_links that hands the links out and keeps them as well
take_links_keeps(d) ==
    [data |-> d, links |-> d.pending_links]

take_links(d) ==
    [data |-> [d EXCEPT !.pending_links = <<>>],
     links |-> d.pending_links]

----------------------------------------------------------------------------
(* Settings and the external collaborators consulted through them. *)

StyleCapabilities == {"None", "Ansi"}
LinkCapabilities == {"None", "OSC8"}
MarkCapabilities == {"None", "ITerm2"}

\* TerminalSize::default().width, as the layout tests of src/lib.rs show
DefaultWidth == 80
\* widest border write_border draws
BorderWidth == 20
\* a terminal narrower than the indent of a list item in a block quote
NarrowWidth == 5

\* the syntaxes settings.syntax_set knows
KnownSyntaxes == {"rust"}
\* a syntax set that has a syntax for every token
find_syntax_by_token_any(token) == Some(token)

find_syntax_by_token(token) ==
    IF token \in KnownSyntaxes THEN Some(token) ELSE None

\* Url::parse(&target): only an absolute URL parses
Url(scheme, base, path) == [scheme |-> scheme, base |-> base, path |-> path]

Url_parse(target) ==
    IF target = "http://example.com/world"
    THEN Some(Url("http", "", target))
    ELSE None

\* Url::from_file_path(base_dir.join(target)): only an absolute path converts
Url_from_file_path(base_dir, target) ==
    IF base_dir = "/" THEN Some(Url("file", base_dir, target)) ELSE None

\* Url::parse(..).or_else(|_| Url::from_file_path(..)).ok()
resolve_url(base_dir, target) ==
    IF is_some(Url_parse(target))
    THEN Url_parse(target)
    ELSE Url_from_file_path(base_dir, target)

Min(a, b) == IF a < b THEN a ELSE b

----------------------------------------------------------------------------
(* The writers of state_write.rs.  Each yields the sequence of writes. *)

write_indent(level) == <<Repeat(" ", level)>>

\* write_styled that paints whatever the capability
write_styled_always(capabilities, style, tok) ==
    <<[tok EXCEPT !.styled = TRUE, !.style = style]>>

write_styled(capabilities, style, tok) ==
    IF capabilities.style = "None"
    THEN <<tok>>
    ELSE <<[tok EXCEPT !.styled = TRUE, !.style = style]>>

\* write_mark that sets the mark whatever the capability
write_mark_always(capabilities) == <<Tok("mark", 0, "", "")>>

write_mark(capabilities) ==
    IF capabilities.marks = "ITerm2" THEN <<Tok("mark", 0, "", "")>> ELSE <<>>

write_rule(capabilities, length) ==
    write_styled(capabilities, fg(Style_new, "Green"),
                 Repeat(RuleGlyph, length))

write_border(capabilities, terminal_size) ==
    write_styled(capabilities, fg(Style_new, "Green"),
                 Repeat(BorderGlyph, Min(terminal_size.width, BorderWidth)))
    \o <<Newline>>

\* the newline written wherever the list returns to
writeln_returning_anywhere(s) == <<Newline>>

writeln_returning_to_toplevel(s) ==
    IF IsTopLevel(s) THEN <<Newline>> ELSE <<>>

RECURSIVE write_link_lines(_, _)
write_link_lines(capabilities, links) ==
    IF links = <<>>
    THEN <<>>
    ELSE write_styled(capabilities, fg(Style_new, "Blue"), RefLine(Head(links)))
         \o <<Newline>>
         \o write_link_lines(capabilities, Tail(links))

write_link_refs(capabilities, links) ==
    IF links # <<>>
    THEN <<Newline>> \o write_link_lines(capabilities, links)
    ELSE <<>>

\* osc8.set_link_url(writer, url) and osc8.clear_link(writer)
set_link_url(url) == <<Tok("osc8_open", 0, url, "")>>
clear_link == <<Tok("osc8_close", 0, "", "")>>

\* HighlightLines::new(syntax, theme): a highlighter holds the state of the
\* parser, which starts in the source scope of the syntax
HighlightLines_new(syntax) == [syntax |-> syntax, parse_state |-> "source"]

\* the scope the text is read in, and the scope the parser is left in
ScopeOf(parse_state, text) ==
    IF text = "/*" THEN "comment" ELSE parse_state

\* highlighter.highlight(text, syntax_set): the regions of the text, and
\* the highlighter as the call leaves it (highlight takes &mut self)
HighlightLines_highlight(highlighter, text) ==
    LET scope == ScopeOf(highlighter.parse_state, text)
    IN  [regions |-> <<[scope |-> scope, syntax |-> highlighter.syntax,
                        text |-> text]>>,
         highlighter |-> [highlighter EXCEPT !.parse_state = scope]]

\* highlighting::write_as_ansi(writer, ansi, &regions)
write_as_ansi(regions) ==
    [i \in 1..Len(regions) |->
        [Tok("highlighted", 0, regions[i].text, regions[i].syntax)
            EXCEPT !.styled = TRUE,
                   !.style = fg(Style_new, regions[i].scope)]]

----------------------------------------------------------------------------
(* Results of write_event and finish. *)

Ok(s, d, out) ==
    [status |-> "Ok", state |-> s, data |-> d, out |-> out, panic |-> "",
     arm |-> ""]

Panic(s, d, out, msg) ==
    [status |-> "Panic", state |-> s, data |-> d, out |-> out, panic |-> msg,
     arm |-> ""]

\* A write returns an io::Error, which the `?` after it returns from the
\* call at once as Err(error): of the writes of the call (r.out), those
\* before the k-th have reached the sink, the k-th and those after it have
\* not.
write_fails(r, k) == [status |-> "Err", out |-> SubSeq(r.out, 1, k - 1)]

\* the ways in which the sink can fail during one of `calls`
WriteErrors(calls) ==
    UNION {{write_fails(r, k) : k \in 1..Len(r.out)} : r \in calls}

\* the result of a match arm, tagged with the arm that produced it
Arm(name, result) == [result EXCEPT !.arm = name]

\* the margin written before every block, the first one as well
MarginBefore_always(attrs) == <<Newline>>

MarginBefore(attrs) == IF attrs.margin_before THEN <<Newline>> ELSE <<>>

ListItemType_from(start) ==
    IF is_some(start) THEN Ordered(unwrap(start)) ELSE Unordered

----------------------------------------------------------------------------
(* The arms of write_event, in source order.  `return_to` is the chain the *)
(* matched NestedState owns, `attrs` the attributes of the matched state.  *)

TopLevel_StartParagraph(attrs, d) ==
    Ok(NestedState(<<TopLevel(TopLevelAttrs_margin_before)>>,
                   Inline(InlineText, InlineAttrs(Style_new, 0))),
       d,
       MarginBefore(attrs))

\* the arm with the reference lines written after the adornment
TopLevel_StartHeading_late(st, attrs, d, level) ==
    LET taken == take_links(d)
        style == bold(fg(Style_new, "Blue"))
    IN  Ok(NestedState(<<TopLevel(TopLevelAttrs_margin_before)>>,
                       Inline(InlineText, InlineAttrs(style, 0))),
           taken.data,
           MarginBefore(attrs)
           \o write_mark(st.terminal_capabilities)
           \o write_styled(st.terminal_capabilities, style,
                           Repeat(HeadingGlyph, level))
           \o write_link_refs(st.terminal_capabilities, taken.links))

TopLevel_StartHeading(st, attrs, d, level) ==
    LET taken == take_links(d)
        style == bold(fg(Style_new, "Blue"))
    IN  Ok(NestedState(<<TopLevel(TopLevelAttrs_margin_before)>>,
                       Inline(InlineText, InlineAttrs(style, 0))),
           taken.data,
           write_link_refs(st.terminal_capabilities, taken.links)
           \o MarginBefore(attrs)
           \o write_mark(st.terminal_capabilities)
           \o write_styled(st.terminal_capabilities, style,
                           Repeat(HeadingGlyph, level)))

TopLevel_StartBlockQuote(attrs, d) ==
    Ok(NestedState(<<TopLevel(TopLevelAttrs_margin_before)>>,
                   StyledBlock(StyledBlockAttrs(
                       FALSE, 4, fg(italic(Style_new), "Green")))),
       d,
       MarginBefore(attrs))

TopLevel_Rule(st, attrs, d) ==
    Ok(<<TopLevel(attrs)>>,
       d,
       MarginBefore(attrs)
       \o write_rule(st.terminal_capabilities, st.terminal_size.width)
       \o <<Newline>>)

syntax_token_of(kind) ==
    IF ~kind.fenced THEN None
    ELSE IF kind.name = "" THEN None
    ELSE Some(kind.name)

\* the arm with a flush of the link buffer, as for a heading
TopLevel_StartCodeBlock_flushes(st, attrs, d, kind) ==
    LET taken == take_links(d)
    IN  Ok(NestedState(<<TopLevel(TopLevelAttrs_margin_before)>>,
                       HighlightBlock(
                           HighlightBlockAttrs(syntax_token_of(kind)))),
           taken.data,
           write_link_refs(st.terminal_capabilities, taken.links)
           \o MarginBefore(attrs)
           \o write_border(st.terminal_capabilities, st.terminal_size))

TopLevel_StartCodeBlock(st, attrs, d, kind) ==
    Ok(NestedState(<<TopLevel(TopLevelAttrs_margin_before)>>,
                   HighlightBlock(HighlightBlockAttrs(syntax_token_of(kind)))),
       d,
       MarginBefore(attrs)
       \o write_border(st.terminal_capabilities, st.terminal_size))

TopLevel_StartList(attrs, d, start) ==
    Ok(NestedState(<<TopLevel(TopLevelAttrs_margin_before)>>,
                   ListBlock(ListBlockAttrs(
                       ListItemType_from(start), FALSE, 0, Style_new))),
       d,
       MarginBefore(attrs))

\* the arm that keeps the item's lead text as the state to return to
ListItemText_StartParagraph_lead(return_to, attrs, d) ==
    Ok(NestedState(
           NestedState(return_to, Inline(ListItemText, attrs)),
           Inline(InlineText, attrs)),
       d,
       <<>>)

ListItemText_StartParagraph(return_to, attrs, d) ==
    Ok(NestedState(
           NestedState(return_to,
                       StyledBlock(StyledBlockAttrs(
                           TRUE, attrs.indent, attrs.style))),
           Inline(InlineText, attrs)),
       d,
       <<>>)

ListItemText_StartList(return_to, attrs, d, start) ==
    Ok(NestedState(
           NestedState(return_to, Inline(ListItemText, attrs)),
           ListBlock(ListBlockAttrs(
               ListItemType_from(start), FALSE, attrs.indent, attrs.style))),
       d,
       <<Newline>>)

StyledBlock_StartParagraph(return_to, attrs, d) ==
    Ok(NestedState(
           NestedState(return_to, StyledBlock(with_margin_before(attrs))),
           Inline(InlineText, InlineAttrs(attrs.style, attrs.indent))),
       d,
       MarginBefore(attrs) \o write_indent(attrs.indent))

\* settings.terminal_size.width - (attrs.indent as usize): usize arithmetic
\* panics on overflow when the result would be negative
StyledBlock_Rule(st, return_to, attrs, d) ==
    IF st.terminal_size.width < attrs.indent
    THEN Panic(NestedState(return_to, StyledBlock(attrs)), d,
               MarginBefore(attrs) \o write_indent(attrs.indent),
               "Overflow")
    ELSE Ok(NestedState(return_to, StyledBlock(with_margin_before(attrs))),
            d,
            MarginBefore(attrs)
            \o write_indent(attrs.indent)
            \o write_rule(st.terminal_capabilities,
                          st.terminal_size.width - attrs.indent)
            \o <<Newline>>)

\* the arm with a flush of the link buffer, as at top level
StyledBlock_StartHeading_flushes(st, return_to, attrs, d, level) ==
    LET taken == take_links(d)
        style == bold(attrs.style)
    IN  Ok(NestedState(
               NestedState(return_to, StyledBlock(with_margin_before(attrs))),
               Inline(InlineText, InlineAttrs(style, attrs.indent))),
           taken.data,
           write_link_refs(st.terminal_capabilities, taken.links)
           \o MarginBefore(attrs)
           \o write_indent(attrs.indent)
           \o write_styled(st.terminal_capabilities, style,
                           Repeat(HeadingGlyph, level)))

StyledBlock_StartHeading(st, return_to, attrs, d, level) ==
    LET style == bold(attrs.style)
    IN  Ok(NestedState(
               NestedState(return_to, StyledBlock(with_margin_before(attrs))),
               Inline(InlineText, InlineAttrs(style, attrs.indent))),
           d,
           MarginBefore(attrs)
           \o write_indent(attrs.indent)
           \o write_styled(st.terminal_capabilities, style,
                           Repeat(HeadingGlyph, level)))

StyledBlock_StartList(return_to, attrs, d, start) ==
    Ok(NestedState(
           NestedState(return_to, StyledBlock(attrs)),
           ListBlock(ListBlockAttrs(
               ListItemType_from(start), FALSE, attrs.indent, attrs.style))),
       d,
       MarginBefore(attrs))

StyledBlock_EndItem(return_to, d) == Ok(return_to, d, <<>>)

HighlightBlock_Text(st, return_to, attrs, d, text) ==
    LET syntax == IF is_some(attrs.syntax_token)
                  THEN find_syntax_by_token(unwrap(attrs.syntax_token))
                  ELSE None
    IN  Ok(NestedState(return_to, HighlightBlock(attrs)),
           d,
           IF st.terminal_capabilities.style = "None"
           THEN <<Str(text)>>
           ELSE IF syntax = None
           THEN write_styled(st.terminal_capabilities,
                             fg(Style_new, "Yellow"), Str(text))
           ELSE LET highlighter == HighlightLines_new(unwrap(syntax))
                IN  write_as_ansi(
                        HighlightLines_highlight(highlighter, text).regions))

\* the arm that pops without a closing border
HighlightBlock_EndCodeBlock_open(st, return_to, d) == Ok(return_to, d, <<>>)

HighlightBlock_EndCodeBlock(st, return_to, d) ==
    Ok(return_to, d,
       write_border(st.terminal_capabilities, st.terminal_size))

Nested_EndBlockQuote(return_to, d) == Ok(return_to, d, <<>>)

\* the arm with the indent of a bullet for every item
ListBlock_StartItem_narrow(return_to, attrs, d) ==
    LET ordered == attrs.item_type # Unordered
    IN  Ok(NestedState(
               NestedState(return_to, ListBlock(to_next_item(attrs))),
               Inline(ListItemText,
                      InlineAttrs(attrs.style, attrs.indent + 2))),
           d,
           (IF attrs.newline_before THEN <<Newline>> ELSE <<>>)
           \o write_indent(attrs.indent)
           \o (IF ordered
               THEN <<Tok("number", unwrap(attrs.item_type), ". ", "")>>
               ELSE <<Tok("bullet", 0, " ", "")>>))

ListBlock_StartItem(return_to, attrs, d) ==
    LET ordered == attrs.item_type # Unordered
        indent == IF ordered THEN attrs.indent + 4 ELSE attrs.indent + 2
    IN  Ok(NestedState(
               NestedState(return_to, ListBlock(to_next_item(attrs))),
               Inline(ListItemText, InlineAttrs(attrs.style, indent))),
           d,
           (IF attrs.newline_before THEN <<Newline>> ELSE <<>>)
           \o write_indent(attrs.indent)
           \o (IF ordered
               THEN <<Tok("number", unwrap(attrs.item_type), ". ", "")>>
               ELSE <<Tok("bullet", 0, " ", "")>>))

ListBlock_EndList(return_to, d) ==
    Ok(return_to, d, writeln_returning_to_toplevel(return_to))

\* the arm with italics switched on instead of toggled
Inline_StartEmphasis_forces(return_to, istate, attrs, d) ==
    Ok(NestedState(NestedState(return_to, Inline(istate, attrs)),
                   Inline(InlineText,
                          InlineAttrs(italic(attrs.style), attrs.indent))),
       d, <<>>)

\* the arm whose child keeps the InlineState of its parent
Inline_StartEmphasis_same_state(return_to, istate, attrs, d) ==
    LET style == [attrs.style EXCEPT !.is_italic = ~attrs.style.is_italic]
    IN  Ok(NestedState(NestedState(return_to, Inline(istate, attrs)),
                       Inline(istate, InlineAttrs(style, attrs.indent))),
           d, <<>>)

Inline_StartEmphasis(return_to, istate, attrs, d) ==
    LET style == [attrs.style EXCEPT !.is_italic = ~attrs.style.is_italic]
    IN  Ok(NestedState(NestedState(return_to, Inline(istate, attrs)),
                       Inline(InlineText, InlineAttrs(style, attrs.indent))),
           d, <<>>)

Inline_EndEmphasis(return_to, d) == Ok(return_to, d, <<>>)

\* the arm with the bold style set in the parent state as well
Inline_StartStrong_bolds_parent(return_to, istate, attrs, d) ==
    Ok(NestedState(NestedState(return_to,
                               Inline(istate,
                                      InlineAttrs(bold(attrs.style),
                                                  attrs.indent))),
                   Inline(InlineText,
                          InlineAttrs(bold(attrs.style), attrs.indent))),
       d, <<>>)

Inline_StartStrong(return_to, istate, attrs, d) ==
    Ok(NestedState(NestedState(return_to, Inline(istate, attrs)),
                   Inline(InlineText,
                          InlineAttrs(bold(attrs.style), attrs.indent))),
       d, <<>>)

Inline_EndStrong(return_to, d) == Ok(return_to, d, <<>>)

Inline_StartStrikethrough(return_to, istate, attrs, d) ==
    Ok(NestedState(NestedState(return_to, Inline(istate, attrs)),
                   Inline(InlineText,
                          InlineAttrs(strikethrough(attrs.style),
                                      attrs.indent))),
       d, <<>>)

Inline_EndStrikethrough(return_to, d) == Ok(return_to, d, <<>>)

Inline_Code(st, return_to, istate, attrs, d, code) ==
    Ok(NestedState(return_to, Inline(istate, attrs)),
       d,
       write_styled(st.terminal_capabilities, fg(attrs.style, "Yellow"),
                    Str(code)))

\* the arm that starts the next line at the left edge
Inline_SoftBreak_flush_left(return_to, istate, attrs, d) ==
    Ok(NestedState(return_to, Inline(istate, attrs)), d, <<Newline>>)

Inline_SoftBreak(return_to, istate, attrs, d) ==
    Ok(NestedState(return_to, Inline(istate, attrs)),
       d,
       <<Newline>> \o write_indent(attrs.indent))

Inline_HardBreak(return_to, istate, attrs, d) ==
    Ok(NestedState(return_to, Inline(istate, attrs)),
       d,
       <<Newline>> \o write_indent(attrs.indent))

Inline_Text(st, return_to, istate, attrs, d, text) ==
    Ok(NestedState(return_to, Inline(istate, attrs)),
       d,
       write_styled(st.terminal_capabilities, attrs.style, Str(text)))

\* the arm that enters Inline(InlineLink) for every target that resolves and
\* looks at the capability only to write the escape
InlineText_StartLink_live(st, return_to, attrs, d, target) ==
    LET url == resolve_url(st.base_dir, target)
    IN  Ok(NestedState(NestedState(return_to, Inline(InlineText, attrs)),
                       Inline(IF is_some(url) THEN InlineLink ELSE InlineText,
                              InlineAttrs(fg(attrs.style, "Blue"),
                                          attrs.indent))),
           d,
           IF st.terminal_capabilities.links = "OSC8" /\ is_some(url)
           THEN set_link_url(unwrap(url))
           ELSE <<>>)

\* the arm without the live hyperlink: always the reference fallback
InlineText_StartLink_plain(st, return_to, attrs, d, target) ==
    Ok(NestedState(NestedState(return_to, Inline(InlineText, attrs)),
                   Inline(InlineText,
                          InlineAttrs(fg(attrs.style, "Blue"), attrs.indent))),
       d, <<>>)

InlineText_StartLink(st, return_to, attrs, d, target) ==
    LET style == fg(attrs.style, "Blue")
        url == resolve_url(st.base_dir, target)
        parent == NestedState(return_to, Inline(InlineText, attrs))
    IN  IF st.terminal_capabilities.links = "OSC8"
        THEN IF is_some(url)
             THEN Ok(NestedState(parent,
                                 Inline(InlineLink,
                                        InlineAttrs(style, attrs.indent))),
                     d,
                     set_link_url(unwrap(url)))
             ELSE Ok(NestedState(parent,
                                 Inline(InlineText,
                                        InlineAttrs(style, attrs.indent))),
                     d, <<>>)
        ELSE Ok(NestedState(parent,
                            Inline(InlineText,
                                   InlineAttrs(style, attrs.indent))),
                d, <<>>)

\* the arm that leaves the hyperlink open
InlineLink_EndLink_open(st, return_to, attrs, d) == Ok(return_to, d, <<>>)

InlineLink_EndLink(st, return_to, attrs, d) ==
    IF st.terminal_capabilities.links = "OSC8"
    THEN Ok(return_to, d, clear_link)
    ELSE Panic(NestedState(return_to, Inline(InlineLink, attrs)), d, <<>>,
               "Unreachable")

\* the arm with a reference for the autolink, as for any other link
InlineText_EndAutolink_refs(return_to, d) ==
    LET added == add_link(d, "http://example.com/world", "")
    IN  Ok(return_to, added.data, <<Marker(added.index)>>)

InlineText_EndAutolink(return_to, d) == Ok(return_to, d, <<>>)

InlineText_EndLink(st, return_to, attrs, d, target, title) ==
    LET added == add_link(d, target, title)
    IN  Ok(return_to,
           added.data,
           write_styled(st.terminal_capabilities, fg(attrs.style, "Blue"),
                        Marker(added.index)))

ListItemText_EndItem(return_to, d) == Ok(return_to, d, <<>>)

\* the arm without the return to the parent state
Inline_EndParagraph_stays(return_to, d) ==
    Ok(NestedState(return_to, Inline(InlineText, InlineAttrs(Style_new, 0))),
       d, <<Newline>>)

Inline_EndParagraph(return_to, d) == Ok(return_to, d, <<Newline>>)

Inline_EndHeading(return_to, d) == Ok(return_to, d, <<Newline>>)

\* impossible(state, event): Text or Code at top level
impossible(s, d) == Panic(s, d, <<>>, "Impossible")

\* the final catch-all arm: panic!("Unexpected event in state ...")
unexpected(s, d) == Panic(s, d, <<>>, "Unexpected")

----------------------------------------------------------------------------
(* write_event: match (state, event), first matching arm wins. *)

\* The patterns of the match: the name of the first arm that matches.
match_arm(s, e) ==
    LET cur == Current(s)
        top == cur.kind = "TopLevel"
        styled == cur.kind = "StyledBlock"
        highlight == cur.kind = "HighlightBlock"
        list == cur.kind = "ListBlock"
        inline == cur.kind = "Inline"
        inline_in(istate) == cur.kind = "Inline" /\ cur.state = istate
    IN
    IF top /\ IsStart(e, "Paragraph") THEN "TopLevel_StartParagraph"
    ELSE IF top /\ IsStart(e, "Heading") THEN "TopLevel_StartHeading"
    ELSE IF top /\ IsStart(e, "BlockQuote") THEN "TopLevel_StartBlockQuote"
    ELSE IF top /\ e.kind = "Rule" THEN "TopLevel_Rule"
    ELSE IF top /\ IsStart(e, "CodeBlock") THEN "TopLevel_StartCodeBlock"
    ELSE IF top /\ IsStart(e, "List") THEN "TopLevel_StartList"
    ELSE IF inline_in(ListItemText)
            /\ IsStart(e, "Paragraph") THEN "ListItemText_StartParagraph"
    ELSE IF inline_in(ListItemText)
            /\ IsStart(e, "List") THEN "ListItemText_StartList"
    ELSE IF styled /\ IsStart(e, "Paragraph") THEN "StyledBlock_StartParagraph"
    ELSE IF styled /\ e.kind = "Rule" THEN "StyledBlock_Rule"
    ELSE IF styled /\ IsStart(e, "Heading") THEN "StyledBlock_StartHeading"
    ELSE IF styled /\ IsStart(e, "List") THEN "StyledBlock_StartList"
    ELSE IF styled /\ IsEnd(e, "Item") THEN "StyledBlock_EndItem"
    ELSE IF highlight /\ e.kind = "Text" THEN "HighlightBlock_Text"
    ELSE IF highlight
            /\ IsEnd(e, "CodeBlock") THEN "HighlightBlock_EndCodeBlock"
    ELSE IF ~top /\ IsEnd(e, "BlockQuote") THEN "Nested_EndBlockQuote"
    ELSE IF list /\ IsStart(e, "Item") THEN "ListBlock_StartItem"
    ELSE IF list /\ IsEnd(e, "List") THEN "ListBlock_EndList"
    ELSE IF inline /\ IsStart(e, "Emphasis") THEN "Inline_StartEmphasis"
    ELSE IF inline /\ IsEnd(e, "Emphasis") THEN "Inline_EndEmphasis"
    ELSE IF inline /\ IsStart(e, "Strong") THEN "Inline_StartStrong"
    ELSE IF inline /\ IsEnd(e, "Strong") THEN "Inline_EndStrong"
    ELSE IF inline
            /\ IsStart(e, "Strikethrough") THEN "Inline_StartStrikethrough"
    ELSE IF inline /\ IsEnd(e, "Strikethrough") THEN "Inline_EndStrikethrough"
    ELSE IF inline /\ e.kind = "Code" THEN "Inline_Code"
    ELSE IF inline /\ e.kind = "SoftBreak" THEN "Inline_SoftBreak"
    ELSE IF inline /\ e.kind = "HardBreak" THEN "Inline_HardBreak"
    ELSE IF inline /\ e.kind = "Text" THEN "Inline_Text"
    ELSE IF inline_in(InlineText)
            /\ IsStart(e, "Link") THEN "InlineText_StartLink"
    ELSE IF inline_in(InlineLink) /\ IsEnd(e, "Link") THEN "InlineLink_EndLink"
    ELSE IF inline_in(InlineText) /\ IsEnd(e, "Link")
            /\ e.tag.type = "Autolink" THEN "InlineText_EndAutolink"
    ELSE IF inline_in(InlineText) /\ IsEnd(e, "Link") THEN "InlineText_EndLink"
    ELSE IF inline_in(ListItemText)
            /\ IsEnd(e, "Item") THEN "ListItemText_EndItem"
    ELSE IF inline /\ IsEnd(e, "Paragraph") THEN "Inline_EndParagraph"
    ELSE IF inline /\ IsEnd(e, "Heading") THEN "Inline_EndHeading"
    ELSE IF top /\ e.kind = "Code" THEN "impossible_Code"
    ELSE IF top /\ e.kind = "Text" THEN "impossible_Text"
    ELSE "unexpected"

\* The patterns look at nothing but the kind of the current state and, for
\* Inline, its InlineState: match_arm tabulated over these and the events.
ArmTable ==
    [kind \in {"TopLevel", "StyledBlock", "HighlightBlock", "ListBlock",
               "Inline"} |->
        [istate \in {InlineText, InlineLink, ListItemText} |->
            [e \in Events |->
                match_arm(<<[kind |-> kind, state |-> istate]>>, e)]]]

\* match_arm(s, e), looked up
matched_arm(s, e) ==
    LET cur == Current(s)
    IN  ArmTable[cur.kind]
                [IF cur.kind = "Inline" THEN cur.state ELSE InlineText][e]

\* The bodies of the match: what the arm `arm` does.
arm_body(arm, st, s, d, e) ==
    LET cur == Current(s)
        return_to == ReturnTo(s)
    IN  Arm(arm,
        CASE arm = "TopLevel_StartParagraph" ->
                TopLevel_StartParagraph(cur.attrs, d)
          [] arm = "TopLevel_StartHeading" ->
                TopLevel_StartHeading(st, cur.attrs, d, e.tag.level)
          [] arm = "TopLevel_StartBlockQuote" ->
                TopLevel_StartBlockQuote(cur.attrs, d)
          [] arm = "TopLevel_Rule" ->
                TopLevel_Rule(st, cur.attrs, d)
          [] arm = "TopLevel_StartCodeBlock" ->
                TopLevel_StartCodeBlock(st, cur.attrs, d, e.tag.kind)
          [] arm = "TopLevel_StartList" ->
                TopLevel_StartList(cur.attrs, d, e.tag.start)
          [] arm = "ListItemText_StartParagraph" ->
                ListItemText_StartParagraph(return_to, cur.attrs, d)
          [] arm = "ListItemText_StartList" ->
                ListItemText_StartList(return_to, cur.attrs, d, e.tag.start)
          [] arm = "StyledBlock_StartParagraph" ->
                StyledBlock_StartParagraph(return_to, cur.attrs, d)
          [] arm = "StyledBlock_Rule" ->
                StyledBlock_Rule(st, return_to, cur.attrs, d)
          [] arm = "StyledBlock_StartHeading" ->
                StyledBlock_StartHeading(st, return_to, cur.attrs, d,
                    e.tag.level)
          [] arm = "StyledBlock_StartList" ->
                StyledBlock_StartList(return_to, cur.attrs, d, e.tag.start)
          [] arm = "StyledBlock_EndItem" ->
                StyledBlock_EndItem(return_to, d)
          [] arm = "HighlightBlock_Text" ->
                HighlightBlock_Text(st, return_to, cur.attrs, d, e.text)
          [] arm = "HighlightBlock_EndCodeBlock" ->
                HighlightBlock_EndCodeBlock(st, return_to, d)
          [] arm = "Nested_EndBlockQuote" ->
                Nested_EndBlockQuote(return_to, d)
          [] arm = "ListBlock_StartItem" ->
                ListBlock_StartItem(return_to, cur.attrs, d)
          [] arm = "ListBlock_EndList" ->
                ListBlock_EndList(return_to, d)
          [] arm = "Inline_StartEmphasis" ->
                Inline_StartEmphasis(return_to, cur.state, cur.attrs, d)
          [] arm = "Inline_EndEmphasis" ->
                Inline_EndEmphasis(return_to, d)
          [] arm = "Inline_StartStrong" ->
                Inline_StartStrong(return_to, cur.state, cur.attrs, d)
          [] arm = "Inline_EndStrong" ->
                Inline_EndStrong(return_to, d)
          [] arm = "Inline_StartStrikethrough" ->
                Inline_StartStrikethrough(return_to, cur.state, cur.attrs, d)
          [] arm = "Inline_EndStrikethrough" ->
                Inline_EndStrikethrough(return_to, d)
          [] arm = "Inline_Code" ->
                Inline_Code(st, return_to, cur.state, cur.attrs, d, e.text)
          [] arm = "Inline_SoftBreak" ->
                Inline_SoftBreak(return_to, cur.state, cur.attrs, d)
          [] arm = "Inline_HardBreak" ->
                Inline_HardBreak(return_to, cur.state, cur.attrs, d)
          [] arm = "Inline_Text" ->
                Inline_Text(st, return_to, cur.state, cur.attrs, d, e.text)
          [] arm = "InlineText_StartLink" ->
                InlineText_StartLink(st, return_to, cur.attrs, d, e.tag.target)
          [] arm = "InlineLink_EndLink" ->
                InlineLink_EndLink(st, return_to, cur.attrs, d)
          [] arm = "InlineText_EndAutolink" ->
                InlineText_EndAutolink(return_to, d)
          [] arm = "InlineText_EndLink" ->
                InlineText_EndLink(st, return_to, cur.attrs, d, e.tag.target,
                    e.tag.title)
          [] arm = "ListItemText_EndItem" ->
                ListItemText_EndItem(return_to, d)
          [] arm = "Inline_EndParagraph" ->
                Inline_EndParagraph(return_to, d)
          [] arm = "Inline_EndHeading" ->
                Inline_EndHeading(return_to, d)
          [] arm = "impossible_Code" ->
                impossible(s, d)
          [] arm = "impossible_Text" ->
                impossible(s, d)
          [] arm = "unexpected" ->
                unexpected(s, d))

write_event(st, s, d, e) == arm_body(matched_arm(s, e), st, s, d, e)

\* finish that drops the pending links unwritten
finish_silent(st, s, d) ==
    IF IsTopLevel(s)
    THEN Arm("finish_TopLevel", Ok(s, [d EXCEPT !.pending_links = <<>>], <<>>))
    ELSE Arm("finish_Nested", Panic(s, d, <<>>, "Finish"))

\* finish: write the pending links at top level, panic anywhere else.
\* data.pending_links is moved into write_link_refs.
finish(st, s, d) ==
    IF IsTopLevel(s)
    THEN Arm("finish_TopLevel",
             Ok(s, [d EXCEPT !.pending_links = <<>>],
                write_link_refs(st.terminal_capabilities, d.pending_links)))
    ELSE Arm("finish_Nested", Panic(s, d, <<>>, "Finish"))

----------------------------------------------------------------------------
(* The producer of the event stream. *)

Last(seq) == seq[Len(seq)]
Front(seq) == SubSeq(seq, 1, Len(seq) - 1)

\* the innermost open construct
Context(o) == IF o = <<>> THEN "Document" ELSE Last(o).name

\* what the producer remembers of an open tag: its name, and for a link
\* the whole tag, which the End event repeats
Opened(tag) == IF tag.name = "Link" THEN tag ELSE [name |-> tag.name]

BlockTags == {"Paragraph", "Heading", "BlockQuote", "CodeBlock", "List"}
InlineContainers == {"Paragraph", "Heading", "Emphasis", "Strong",
                     "Strikethrough", "Link"}

IsInlineContent(o, e) ==
    \/ e.kind \in {"Text", "Code", "SoftBreak", "HardBreak"}
    \/ /\ e.kind = "Start"
       /\ e.tag.name \in {"Emphasis", "Strong", "Strikethrough"}
    \/ /\ IsStart(e, "Link")
       /\ \A i \in 1..Len(o) : o[i].name # "Link"

IsBlockContent(e) ==
    \/ e.kind = "Rule"
    \/ e.kind = "Start" /\ e.tag.name \in BlockTags

\* an End closes the innermost open construct
Closes(o, e) == e.kind = "End" /\ o # <<>> /\ Last(o) = Opened(e.tag)

\* the events a markdown parser can emit when `o` is open
Legal(o, e) ==
    LET ctx == Context(o)
    IN  \/ Closes(o, e)
        \/ ctx \in {"Document", "BlockQuote"} /\ IsBlockContent(e)
        \/ ctx = "Item" /\ (IsBlockContent(e) \/ IsInlineContent(o, e))
        \/ ctx = "List" /\ IsStart(e, "Item")
        \/ ctx \in InlineContainers /\ IsInlineContent(o, e)
        \/ ctx = "CodeBlock" /\ e.kind = "Text"

OpenAfter(o, e) ==
    IF e.kind = "Start" THEN Append(o, Opened(e.tag))
    ELSE IF Closes(o, e) THEN Front(o)
    ELSE o

\* the tags of inline markup, which nest inside inline text
InlineMarkup == {"Emphasis", "Strong", "Strikethrough", "Link"}

\* the State in which each open tag of inline markup was entered (None for
\* the other tags): `s` is the State that handles e
EnteredAfter(en, o, s, e) ==
    IF e.kind = "Start"
    THEN Append(en, IF e.tag.name \in InlineMarkup THEN Some(s) ELSE None)
    ELSE IF Closes(o, e) THEN Front(en)
    ELSE en

\* the open lists after e: Start(List) opens one, Start(Item) is one more
\* item of the innermost one, End(List) closes it
ListsAfter(ls, o, e) ==
    IF IsStart(e, "List")
    THEN Append(ls, [start |-> e.tag.start, nonempty |-> FALSE, items |-> 0])
    ELSE IF IsStart(e, "Item")
    THEN Append(Front(ls),
                [Last(ls) EXCEPT
                    !.nonempty = TRUE,
                    !.items = IF is_some(Last(ls).start) THEN @ + 1 ELSE @])
    ELSE IF IsEnd(e, "List") /\ Closes(o, e) THEN Front(ls)
    ELSE ls

----------------------------------------------------------------------------
(* push_tty: fold write_event over the events, then finish. *)

RECURSIVE IndicesOf(_, _)
IndicesOf(out, what) ==
    IF out = <<>> THEN <<>>
    ELSE (IF Head(out).what = what THEN <<Head(out).n>> ELSE <<>>)
         \o IndicesOf(Tail(out), what)

\* the writes that put no character on the line: an empty run and the
\* escape sequences of marks and hyperlinks
IsEmptyWrite(tok) ==
    \/ tok.what = "repeat" /\ tok.n = 0
    \/ tok.what \in {"mark", "osc8_open", "osc8_close"}

\* whether the output stands at the start of a line once `out` is written
\* after an output of which `ls` says so
RECURSIVE LineStartAfter(_, _)
LineStartAfter(ls, out) ==
    IF ls = None \/ out = <<>> THEN ls
    ELSE LineStartAfter(IF IsEmptyWrite(Head(out)) THEN ls
                        ELSE Some(Head(out) = Newline),
                        Tail(out))

\* the largest number held by an ordered ListBlock of the chain
ItemNosWithin(s) ==
    \A i \in 1..Len(s) :
        (s[i].kind = "ListBlock" /\ s[i].attrs.item_type # Unordered)
            => unwrap(s[i].attrs.item_type) <= MaxItemNo + 1

\* the number of Inline states at the inner end of the chain
RECURSIVE TrailingInlines(_)
TrailingInlines(s) ==
    IF s = <<>> \/ s[Len(s)].kind # "Inline" THEN 0
    ELSE 1 + TrailingInlines(SubSeq(s, 1, Len(s) - 1))

\* the part of the renders that is explored
WithinBounds(r) ==
    /\ Len(r.state) <= MaxDepth
    /\ TrailingInlines(r.state) <= MaxInline + 1
    /\ Len(markers) + Len(IndicesOf(r.out, "marker")) <= MaxLinks
    /\ ItemNosWithin(r.state)

\* the hyperlink of the sink after the writes of one call
RECURSIVE HyperlinkAfter(_, _)
HyperlinkAfter(h, out) ==
    IF out = <<>> THEN h
    ELSE HyperlinkAfter(
             IF Head(out).what = "osc8_open"
             THEN (IF h = "closed" THEN "open" ELSE "broken")
             ELSE IF Head(out).what = "osc8_close"
             THEN (IF h = "open" THEN "closed" ELSE "broken")
             ELSE h,
             Tail(out))

\* the border lines among the writes of one call
Borders(out) ==
    Cardinality({i \in 1..Len(out) :
                    out[i].what = "repeat" /\ out[i].a = BorderGlyph})

\* the count after a call that wrote `out`, for an event that started
\* `started` code blocks
BordersAfter(b, started, out) ==
    IF b = None THEN None
    ELSE Some([blocks |-> unwrap(b).blocks + started,
               borders |-> unwrap(b).borders + Borders(out)])

\* a call of write_event or finish that returned Ok; the sink keeps what
\* the call wrote (r.out), of which the model records the link indices
Return(r) ==
    /\ WithinBounds(r)
    /\ state' = r.state
    /\ data' = r.data
    /\ panic' = ""
    /\ markers' = markers \o IndicesOf(r.out, "marker")
    /\ ref_lines' = ref_lines \o IndicesOf(r.out, "ref")
    /\ line_start' = LineStartAfter(line_start, r.out)
    /\ hyperlink' = HyperlinkAfter(hyperlink, r.out)
    /\ UNCHANGED <<settings, render>>
    /\ UNCHANGED other_vars

\* a call that panicked: the render is aborted, State and StateData are
\* dropped by unwinding and the producer is not asked again; only the cause
\* remains
Dropped == [pending_links |-> <<>>, next_link |-> 0]

Abort(r, legal) ==
    /\ state' = <<>>
    /\ data' = Dropped
    /\ panic' = r.panic
    /\ pc' = "panicked"
    /\ open' = <<>>
    /\ conforming' = (conforming /\ legal)
    /\ entered' = <<>>
    /\ lists' = <<>>
    /\ markers' = <<>>
    /\ ref_lines' = <<>>
    /\ UNCHANGED <<settings, render, line_start, borders, hyperlink>>
    /\ UNCHANGED other_vars

\* push_tty with the error swallowed: the fold goes on with the next event
Fail_goes_on(f) ==
    /\ pc' = "events"
    /\ markers' = markers \o IndicesOf(f.out, "marker")
    /\ ref_lines' = ref_lines \o IndicesOf(f.out, "ref")
    /\ line_start' = LineStartAfter(line_start, f.out)
    /\ borders' = BordersAfter(borders, 0, f.out)
    /\ hyperlink' = HyperlinkAfter(hyperlink, f.out)
    /\ UNCHANGED <<settings, state, data, panic, open, conforming, entered,
                   lists, render>>
    /\ UNCHANGED other_vars

\* a call that returned Err: try_fold stops, `?` returns the error from
\* push_tty, State and StateData are dropped; the sink keeps what was
\* written before the write that failed
Fail(f) ==
    /\ state' = <<>>
    /\ data' = Dropped
    /\ panic' = ""
    /\ pc' = "failed"
    /\ open' = <<>>
    /\ entered' = <<>>
    /\ lists' = <<>>
    /\ markers' = markers \o IndicesOf(f.out, "marker")
    /\ ref_lines' = ref_lines \o IndicesOf(f.out, "ref")
    /\ line_start' = LineStartAfter(line_start, f.out)
    /\ borders' = BordersAfter(borders, 0, f.out)
    /\ hyperlink' = HyperlinkAfter(hyperlink, f.out)
    /\ UNCHANGED <<settings, conforming, render>>
    /\ UNCHANGED other_vars

\* One iteration of try_fold: the producer yields e and write_event handles
\* it in the arm `arm`.  The producer is a markdown parser, so the events it
\* yields here are legal; an illegal event is part of the model only where
\* it ends the render (see Panics below).
Step(e, arm) ==
    LET r == write_event(settings, state, data, e)
    IN  /\ pc = "events"
        /\ Legal(open, e)
        /\ matched_arm(state, e) = arm
        /\ UNCHANGED io_error
        /\ IF r.status = "Ok"
           THEN /\ Return(r)
                /\ IF borders = None \/ ~IsStart(e, "CodeBlock") THEN TRUE
                   ELSE unwrap(borders).blocks < MaxCodeBlocks
                /\ borders' = BordersAfter(
                                  borders,
                                  IF IsStart(e, "CodeBlock") THEN 1 ELSE 0,
                                  r.out)
                /\ pc' = "events"
                /\ open' = OpenAfter(open, e)
                /\ entered' = EnteredAfter(entered, open, state, e)
                /\ lists' = ListsAfter(lists, open, e)
                /\ UNCHANGED conforming
           ELSE Abort(r, TRUE)

\* An arm that only panics: whatever the event that reaches it, legal or
\* not, the render is aborted in the same way; `conforming` keeps whether
\* the event was one a markdown parser can emit.
Panics(events, arm, r) ==
    /\ pc = "events"
    /\ UNCHANGED io_error
    /\ \E legal \in {Legal(open, e) :
                       e \in {x \in events : matched_arm(state, x) = arm}} :
           Abort(r, legal)

On_TopLevel_StartParagraph ==
    /\ pc = "events"
    /\ Current(state).kind = "TopLevel"
    /\ \E e \in StartsOf("Paragraph") : Step(e, "TopLevel_StartParagraph")

On_TopLevel_StartHeading ==
    /\ pc = "events"
    /\ Current(state).kind = "TopLevel"
    /\ \E e \in StartsOf("Heading") : Step(e, "TopLevel_StartHeading")

On_TopLevel_StartBlockQuote ==
    /\ pc = "events"
    /\ Current(state).kind = "TopLevel"
    /\ \E e \in StartsOf("BlockQuote") : Step(e, "TopLevel_StartBlockQuote")

On_TopLevel_Rule ==
    /\ pc = "events"
    /\ Current(state).kind = "TopLevel"
    /\ \E e \in {Rule} : Step(e, "TopLevel_Rule")

On_TopLevel_StartCodeBlock ==
    /\ pc = "events"
    /\ Current(state).kind = "TopLevel"
    /\ \E e \in StartsOf("CodeBlock") : Step(e, "TopLevel_StartCodeBlock")

On_TopLevel_StartList ==
    /\ pc = "events"
    /\ Current(state).kind = "TopLevel"
    /\ \E e \in StartsOf("List") : Step(e, "TopLevel_StartList")

On_ListItemText_StartParagraph ==
    /\ pc = "events"
    /\ Current(state).kind = "Inline"
    /\ \E e \in StartsOf("Paragraph") : Step(e, "ListItemText_StartParagraph")

On_ListItemText_StartList ==
    /\ pc = "events"
    /\ Current(state).kind = "Inline"
    /\ \E e \in StartsOf("List") : Step(e, "ListItemText_StartList")

On_StyledBlock_StartParagraph ==
    /\ pc = "events"
    /\ Current(state).kind = "StyledBlock"
    /\ \E e \in StartsOf("Paragraph") : Step(e, "StyledBlock_StartParagraph")

On_StyledBlock_Rule ==
    /\ pc = "events"
    /\ Current(state).kind = "StyledBlock"
    /\ \E e \in {Rule} : Step(e, "StyledBlock_Rule")

On_StyledBlock_StartHeading ==
    /\ pc = "events"
    /\ Current(state).kind = "StyledBlock"
    /\ \E e \in StartsOf("Heading") : Step(e, "StyledBlock_StartHeading")

On_StyledBlock_StartList ==
    /\ pc = "events"
    /\ Current(state).kind = "StyledBlock"
    /\ \E e \in StartsOf("List") : Step(e, "StyledBlock_StartList")

On_StyledBlock_EndItem ==
    /\ pc = "events"
    /\ Current(state).kind = "StyledBlock"
    /\ \E e \in EndsOf("Item") : Step(e, "StyledBlock_EndItem")

On_HighlightBlock_Text ==
    /\ pc = "events"
    /\ Current(state).kind = "HighlightBlock"
    /\ \E e \in {Text(x) : x \in Texts} : Step(e, "HighlightBlock_Text")

On_HighlightBlock_EndCodeBlock ==
    /\ pc = "events"
    /\ Current(state).kind = "HighlightBlock"
    /\ \E e \in EndsOf("CodeBlock") : Step(e, "HighlightBlock_EndCodeBlock")

On_Nested_EndBlockQuote ==
    /\ pc = "events"
    /\ \E e \in EndsOf("BlockQuote") : Step(e, "Nested_EndBlockQuote")

On_ListBlock_StartItem ==
    /\ pc = "events"
    /\ Current(state).kind = "ListBlock"
    /\ \E e \in StartsOf("Item") : Step(e, "ListBlock_StartItem")

On_ListBlock_EndList ==
    /\ pc = "events"
    /\ Current(state).kind = "ListBlock"
    /\ \E e \in EndsOf("List") : Step(e, "ListBlock_EndList")

On_Inline_StartEmphasis ==
    /\ pc = "events"
    /\ Current(state).kind = "Inline"
    /\ \E e \in StartsOf("Emphasis") : Step(e, "Inline_StartEmphasis")

On_Inline_EndEmphasis ==
    /\ pc = "events"
    /\ Current(state).kind = "Inline"
    /\ \E e \in EndsOf("Emphasis") : Step(e, "Inline_EndEmphasis")

On_Inline_StartStrong ==
    /\ pc = "events"
    /\ Current(state).kind = "Inline"
    /\ \E e \in StartsOf("Strong") : Step(e, "Inline_StartStrong")

On_Inline_EndStrong ==
    /\ pc = "events"
    /\ Current(state).kind = "Inline"
    /\ \E e \in EndsOf("Strong") : Step(e, "Inline_EndStrong")

On_Inline_StartStrikethrough ==
    /\ pc = "events"
    /\ Current(state).kind = "Inline"
    /\ \E e \in StartsOf("Strikethrough") : Step(e, "Inline_StartStrikethrough")

On_Inline_EndStrikethrough ==
    /\ pc = "events"
    /\ Current(state).kind = "Inline"
    /\ \E e \in EndsOf("Strikethrough") : Step(e, "Inline_EndStrikethrough")

On_Inline_Code ==
    /\ pc = "events"
    /\ Current(state).kind = "Inline"
    /\ \E e \in {Code(x) : x \in Texts} : Step(e, "Inline_Code")

On_Inline_SoftBreak ==
    /\ pc = "events"
    /\ Current(state).kind = "Inline"
    /\ \E e \in {SoftBreak} : Step(e, "Inline_SoftBreak")

On_Inline_HardBreak ==
    /\ pc = "events"
    /\ Current(state).kind = "Inline"
    /\ \E e \in {HardBreak} : Step(e, "Inline_HardBreak")

On_Inline_Text ==
    /\ pc = "events"
    /\ Current(state).kind = "Inline"
    /\ \E e \in {Text(x) : x \in Texts} : Step(e, "Inline_Text")

On_InlineText_StartLink ==
    /\ pc = "events"
    /\ Current(state).kind = "Inline"
    /\ \E e \in StartsOf("Link") : Step(e, "InlineText_StartLink")

On_InlineLink_EndLink ==
    /\ pc = "events"
    /\ Current(state).kind = "Inline"
    /\ \E e \in EndsOf("Link") : Step(e, "InlineLink_EndLink")

On_InlineText_EndAutolink ==
    /\ pc = "events"
    /\ Current(state).kind = "Inline"
    /\ \E e \in EndsOf("Link") : Step(e, "InlineText_EndAutolink")

On_InlineText_EndLink ==
    /\ pc = "events"
    /\ Current(state).kind = "Inline"
    /\ \E e \in EndsOf("Link") : Step(e, "InlineText_EndLink")

\* the same arm in a build with overflow checks, when add_link overflows
On_InlineText_EndLink_overflow ==
    /\ overflows(data)
    /\ Panics(EndsOf("Link"), "InlineText_EndLink",
              Panic(state, data, <<>>, "Overflow"))

On_ListItemText_EndItem ==
    /\ pc = "events"
    /\ Current(state).kind = "Inline"
    /\ \E e \in EndsOf("Item") : Step(e, "ListItemText_EndItem")

On_Inline_EndParagraph ==
    /\ pc = "events"
    /\ Current(state).kind = "Inline"
    /\ \E e \in EndsOf("Paragraph") : Step(e, "Inline_EndParagraph")

On_Inline_EndHeading ==
    /\ pc = "events"
    /\ Current(state).kind = "Inline"
    /\ \E e \in EndsOf("Heading") : Step(e, "Inline_EndHeading")

On_impossible_Code ==
    Panics({Code(x) : x \in Texts}, "impossible_Code",
           impossible(state, data))

On_impossible_Text ==
    Panics({Text(x) : x \in Texts}, "impossible_Text",
           impossible(state, data))

On_unexpected ==
    Panics(Events, "unexpected", unexpected(state, data))

\* the stream has ended: push_tty calls finish
Finish(arm) ==
    LET r == finish(settings, state, data)
    IN  /\ pc = "events"
        /\ r.arm = arm
        /\ UNCHANGED io_error
        /\ IF r.status = "Ok"
           THEN /\ Return(r)
                /\ borders' = BordersAfter(borders, 0, r.out)
                /\ pc' = "done"
                /\ UNCHANGED <<open, conforming, entered, lists>>
           ELSE Abort(r, open = <<>>)

On_finish_TopLevel == Finish("finish_TopLevel")

On_finish_Nested == Finish("finish_Nested")

\* The sink fails at a write of the call that handles the next event.
On_write_error ==
    /\ pc = "events"
    /\ ~io_error
    /\ io_error' = TRUE
    /\ \E f \in WriteErrors({write_event(settings, state, data, e) :
                                e \in {x \in Events : Legal(open, x)}}) :
           Fail(f)

\* The sink fails at a write of finish.
On_finish_write_error ==
    /\ pc = "events"
    /\ ~io_error
    /\ io_error' = TRUE
    /\ \E f \in WriteErrors({finish(settings, state, data)}) : Fail(f)

----------------------------------------------------------------------------
(* The render. *)

BaseDirs == {"docs"}

Settings(style, links, marks, width, base_dir) ==
    [terminal_capabilities |->
         [style |-> style, links |-> links, marks |-> marks],
     terminal_size |-> [width |-> width],
     base_dir |-> base_dir]

\* The three capabilities are independent; the renders explored are those
\* with an even number of capabilities present, which cover every pair of
\* values of two capabilities.
Capabilities ==
    {c \in StyleCapabilities \X LinkCapabilities \X MarkCapabilities :
        Cardinality({i \in 1..3 : c[i] # "None"}) % 2 = 0}

AllSettings ==
    {Settings(c[1], c[2], c[3], DefaultWidth, b) :
        c \in Capabilities, b \in BaseDirs}

Init ==
    /\ settings \in AllSettings
    /\ state = State_default
    /\ data = StateData_default
    /\ pc = "events"
    /\ panic = ""
    /\ open = <<>>
    /\ conforming = TRUE
    /\ entered = <<>>
    /\ lists = <<>>
    /\ markers = <<>>
    /\ ref_lines = <<>>
    /\ io_error = FALSE
    /\ render = "first"
    /\ line_start = None
    /\ borders = None
    /\ hyperlink = "closed"
    /\ machine = None
    /\ style_pass = None
    /\ margin_pass = None
    /\ conversion = None

Next ==
    \/ On_TopLevel_StartParagraph
    \/ On_TopLevel_StartHeading
    \/ On_TopLevel_StartBlockQuote
    \/ On_TopLevel_Rule
    \/ On_TopLevel_StartCodeBlock
    \/ On_TopLevel_StartList
    \/ On_ListItemText_StartParagraph
    \/ On_ListItemText_StartList
    \/ On_StyledBlock_StartParagraph
    \/ On_StyledBlock_Rule
    \/ On_StyledBlock_StartHeading
    \/ On_StyledBlock_StartList
    \/ On_StyledBlock_EndItem
    \/ On_HighlightBlock_Text
    \/ On_HighlightBlock_EndCodeBlock
    \/ On_Nested_EndBlockQuote
    \/ On_ListBlock_StartItem
    \/ On_ListBlock_EndList
    \/ On_Inline_StartEmphasis
    \/ On_Inline_EndEmphasis
    \/ On_Inline_StartStrong
    \/ On_Inline_EndStrong
    \/ On_Inline_StartStrikethrough
    \/ On_Inline_EndStrikethrough
    \/ On_Inline_Code
    \/ On_Inline_SoftBreak
    \/ On_Inline_HardBreak
    \/ On_Inline_Text
    \/ On_InlineText_StartLink
    \/ On_InlineLink_EndLink
    \/ On_InlineText_EndAutolink
    \/ On_InlineText_EndLink
    \/ On_ListItemText_EndItem
    \/ On_Inline_EndParagraph
    \/ On_Inline_EndHeading
    \/ On_impossible_Code
    \/ On_impossible_Text
    \/ On_unexpected
    \/ On_finish_TopLevel
    \/ On_finish_Nested

Spec == Init /\ [][Next]_vars

----------------------------------------------------------------------------
(* The end of a long render: the links closed so far have used every index *)
(* below the largest one and were flushed at a heading that has ended.     *)
(* `markers` and `ref_lines` record what is written from here on.          *)

InitManyLinks ==
    /\ settings \in AllSettings
    /\ state = <<TopLevel(TopLevelAttrs_margin_before)>>
    /\ data = [pending_links |-> <<>>, next_link |-> 2 ^ LinkIndexBits - 1]
    /\ pc = "events"
    /\ panic = ""
    /\ open = <<>>
    /\ conforming = TRUE
    /\ entered = <<>>
    /\ lists = <<>>
    /\ markers = <<>>
    /\ ref_lines = <<>>
    /\ io_error = FALSE
    /\ render = "first"
    /\ line_start = None
    /\ borders = None
    /\ hyperlink = "closed"
    /\ machine = None
    /\ style_pass = None
    /\ margin_pass = None
    /\ conversion = None

NextManyLinks ==
    \/ Next
    \/ On_InlineText_EndLink_overflow

SpecManyLinks == InitManyLinks /\ [][NextManyLinks]_vars

----------------------------------------------------------------------------
(* A render into a sink that can fail: any write of any call may return an *)
(* io::Error.                                                              *)

NextFaultySink ==
    \/ Next
    \/ On_write_error
    \/ On_finish_write_error

SpecFaultySink == Init /\ [][NextFaultySink]_vars

----------------------------------------------------------------------------
(* Two renders, one after the other.  Each call of push_tty builds the     *)
(* accumulator of its try_fold anew; the State and StateData the call      *)
(* before ended with were moved into finish and dropped there.             *)

\* the accumulator with the counter of the render before carried on
try_fold_init_keeps_counter(final_state, final_data) ==
    [state |-> State_default,
     data |-> [StateData_default EXCEPT !.next_link = final_data.next_link]]

\* (State::default(), StateData::default())
try_fold_init(final_state, final_data) ==
    [state |-> State_default, data |-> StateData_default]

\* push_tty is called again, with the same settings and a sink of its own
On_push_tty_again ==
    /\ pc = "done"
    /\ render = "first"
    /\ LET acc == try_fold_init(state, data)
       IN  /\ state' = acc.state
           /\ data' = acc.data
    /\ render' = "second"
    /\ pc' = "events"
    /\ panic' = ""
    /\ open' = <<>>
    /\ conforming' = TRUE
    /\ entered' = <<>>
    /\ lists' = <<>>
    /\ markers' = <<>>
    /\ ref_lines' = <<>>
    /\ line_start' = (IF line_start = None THEN None ELSE Some(TRUE))
    /\ borders' = (IF borders = None THEN None
                   ELSE Some([blocks |-> 0, borders |-> 0]))
    /\ hyperlink' = "closed"
    /\ UNCHANGED <<settings, io_error>>
    /\ UNCHANGED other_vars

NextTwoRenders ==
    \/ Next
    \/ On_push_tty_again

SpecTwoRenders == Init /\ [][NextTwoRenders]_vars

----------------------------------------------------------------------------
(* A render whose sink keeps track of the line: an empty sink stands at    *)
(* the start of a line.                                                    *)

InitLines ==
    /\ settings \in AllSettings
    /\ state = State_default
    /\ data = StateData_default
    /\ pc = "events"
    /\ panic = ""
    /\ open = <<>>
    /\ conforming = TRUE
    /\ entered = <<>>
    /\ lists = <<>>
    /\ markers = <<>>
    /\ ref_lines = <<>>
    /\ io_error = FALSE
    /\ render = "first"
    /\ line_start = Some(TRUE)
    /\ borders = None
    /\ hyperlink = "closed"
    /\ machine = None
    /\ style_pass = None
    /\ margin_pass = None
    /\ conversion = None

SpecLines == InitLines /\ [][Next]_vars

----------------------------------------------------------------------------
(* A render to a narrow terminal: settings.terminal_size.width is whatever *)
(* the terminal reports.                                                   *)

InitNarrowTerminal ==
    /\ settings \in {Settings(c[1], c[2], c[3], NarrowWidth, b) :
                         c \in Capabilities, b \in BaseDirs}
    /\ state = State_default
    /\ data = StateData_default
    /\ pc = "events"
    /\ panic = ""
    /\ open = <<>>
    /\ conforming = TRUE
    /\ entered = <<>>
    /\ lists = <<>>
    /\ markers = <<>>
    /\ ref_lines = <<>>
    /\ io_error = FALSE
    /\ render = "first"
    /\ line_start = None
    /\ borders = None
    /\ hyperlink = "closed"
    /\ machine = None
    /\ style_pass = None
    /\ margin_pass = None
    /\ conversion = None

SpecNarrowTerminal == InitNarrowTerminal /\ [][Next]_vars

----------------------------------------------------------------------------
(* A render whose code blocks and border lines are counted, on the         *)
(* terminals without marks: one without and one with styling and links.    *)

InitCodeBlocks ==
    /\ settings \in {s \in AllSettings : s.terminal_capabilities.marks = "None"}
    /\ state = State_default
    /\ data = StateData_default
    /\ pc = "events"
    /\ panic = ""
    /\ open = <<>>
    /\ conforming = TRUE
    /\ entered = <<>>
    /\ lists = <<>>
    /\ markers = <<>>
    /\ ref_lines = <<>>
    /\ io_error = FALSE
    /\ render = "first"
    /\ line_start = None
    /\ borders = Some([blocks |-> 0, borders |-> 0])
    /\ hyperlink = "closed"
    /\ machine = None
    /\ style_pass = None
    /\ margin_pass = None
    /\ conversion = None

SpecCodeBlocks == InitCodeBlocks /\ [][Next]_vars

----------------------------------------------------------------------------
(* Properties of the renders. *)

\* the indices of the links of a buffer, in order
Indices(links) == [i \in 1..Len(links) |-> links[i].index]

\* the links that the reference lines of `out` spell, in order
RECURSIVE RefsOf(_)
RefsOf(out) ==
    IF out = <<>> THEN <<>>
    ELSE (IF Head(out).what = "ref"
          THEN <<LinkRec(Head(out).n, Head(out).a, Head(out).b)>>
          ELSE <<>>)
         \o RefsOf(Tail(out))

IsPrefix(a, b) == Len(a) <= Len(b) /\ SubSeq(b, 1, Len(a)) = a

\* the number of Emphasis constructs open around the current position
RECURSIVE EmphasisDepth(_)
EmphasisDepth(o) ==
    IF o = <<>> THEN 0
    ELSE (IF Last(o).name = "Emphasis" THEN 1 ELSE 0) + EmphasisDepth(Front(o))

InBlockQuote(o) == \E i \in 1..Len(o) : o[i].name = "BlockQuote"

\* C1: after a well-formed stream, where every Start is closed by its End
\* in proper nesting, the state handed to finish is TopLevel.  The chain
\* holds exactly one state per open tag on top of TopLevel, so it is TopLevel
\* whenever no tag is open, a render that finished did so at TopLevel, and
\* finish panics about a NestedState only when a tag was left open.
C1_FinalStateTopLevel ==
    /\ pc = "events" => Len(state) = Len(open) + 1
    /\ (pc = "events" /\ open = <<>>) => IsTopLevel(state)
    /\ pc = "done" => (IsTopLevel(state) /\ open = <<>>)
    /\ panic = "Finish" => ~conforming

C1_Witness ==
    /\ pc = "done"
    /\ conforming
    /\ IsTopLevel(state)
    /\ Len(markers) >= 2

\* C2: no event sequence a conforming markdown producer can emit reaches
\* the catch-all "Unexpected event" panic of write_event.
C2_NoUnexpectedForConforming ==
    panic = "Unexpected" => ~conforming

\* C3: an event that is impossible in the current state aborts the render:
\* Text or Code at TopLevel aborts, and so does an End(Link) that arrives
\* while no link is open.
C3_ImpossibleEventAborts ==
    pc = "events" =>
        /\ IsTopLevel(state) =>
               \A e \in {Text(x) : x \in Texts} \cup {Code(x) : x \in Texts} :
                   write_event(settings, state, data, e).status = "Panic"
        /\ (\A i \in 1..Len(open) : open[i].name # "Link") =>
               \A e \in EndsOf("Link") :
                   write_event(settings, state, data, e).status = "Panic"

\* C4: whenever the stream can end, finish at TopLevel returns Ok having
\* written one reference line for every pending link, in order, and nothing
\* at all when no link is pending; finish at any NestedState panics having
\* written nothing.
C4_Finish ==
    pc = "events" =>
        LET r == finish(settings, state, data)
        IN  IF IsTopLevel(state)
            THEN /\ r.status = "Ok"
                 /\ RefsOf(r.out) = data.pending_links
                 /\ data.pending_links = <<>> => r.out = <<>>
            ELSE /\ r.status = "Panic"
                 /\ r.out = <<>>

C4_Witness ==
    /\ pc = "events"
    /\ IsTopLevel(state)
    /\ Len(data.pending_links) = 2
    /\ Len(RefsOf(finish(settings, state, data).out)) = 2

\* C5: every reference link appended to the buffer is written as a
\* reference line exactly once in a render that finishes: the reference
\* lines written so far followed by the links still pending are the markers
\* written so far, in the same order and with the same indices; no index is
\* written twice; Start(Heading) at TopLevel writes all pending links and
\* leaves none; and when the render is done nothing is pending.
C5_EachLinkWrittenOnce ==
    pc \in {"events", "done"} =>
        /\ ref_lines \o Indices(data.pending_links) = markers
        /\ \A i, j \in 1..Len(ref_lines) :
               ref_lines[i] = ref_lines[j] => i = j
        /\ pc = "done" => data.pending_links = <<>>
        /\ (pc = "events" /\ IsTopLevel(state)) =>
               \A e \in StartsOf("Heading") :
                   LET r == write_event(settings, state, data, e)
                   IN  /\ RefsOf(r.out) = data.pending_links
                       /\ r.data.pending_links = <<>>

C5_Witness ==
    /\ pc = "done"
    /\ Len(ref_lines) >= 2
    /\ ref_lines = markers

\* C6: the k-th reference link closed in a render gets index k: each index
\* is one more than the index before it, the counter is one more than the
\* last index handed out, and no index is handed out twice.
C6_IndexIsOrdinal ==
    pc \in {"events", "done"} =>
        /\ \A i \in 1..(Len(markers) - 1) : markers[i + 1] = markers[i] + 1
        /\ \A i, j \in 1..Len(markers) : markers[i] = markers[j] => i = j
        /\ markers # <<>> => data.next_link = Last(markers) + 1

\* C7: Start(Heading) at TopLevel with pending links writes, after a blank
\* line, one reference line per pending link in insertion order, each with
\* the index, target and title of its link; only after them the margin, the
\* mark (if the terminal has marks) and last the heading adornment; and the
\* buffer is empty afterwards.
C7_HeadingFlushOrder ==
    (pc = "events" /\ IsTopLevel(state) /\ data.pending_links # <<>>) =>
        \A e \in StartsOf("Heading") :
            LET r == write_event(settings, state, data, e)
                links == data.pending_links
                n == Len(links)
                out == r.out
            IN  /\ r.status = "Ok"
                /\ r.data.pending_links = <<>>
                /\ Len(out) >= 2 * n + 2
                /\ out[1] = Newline
                /\ \A i \in 1..n :
                       /\ out[2 * i].what = "ref"
                       /\ out[2 * i].n = links[i].index
                       /\ out[2 * i].a = links[i].target
                       /\ out[2 * i].b = links[i].title
                       /\ out[2 * i + 1] = Newline
                /\ \A i \in (2 * n + 2)..Len(out) : out[i].what # "ref"
                /\ Current(state).attrs.margin_before =>
                       out[2 * n + 2] = Newline
                /\ \A i \in 1..Len(out) : out[i].what = "mark" => i > 2 * n + 1
                /\ settings.terminal_capabilities.marks = "ITerm2" =>
                       out[Len(out) - 1].what = "mark"
                /\ out[Len(out)].what = "repeat"
                /\ out[Len(out)].a = HeadingGlyph
                /\ out[Len(out)].n = e.tag.level

C7_Witness ==
    /\ pc = "events"
    /\ open = <<[name |-> "Heading"]>>
    /\ Len(ref_lines) = 2
    /\ data.pending_links = <<>>

\* C8: between flush points the link buffer is append-only: no call of
\* write_event other than Start(Heading) at TopLevel removes or reorders
\* pending links or writes a reference line; Start(Heading) inside a
\* StyledBlock leaves the buffer as it is.
C8_AppendOnlyBetweenFlushes ==
    pc = "events" =>
        \A e \in Events :
            LET r == write_event(settings, state, data, e)
            IN  (r.status = "Ok" /\ r.arm # "TopLevel_StartHeading") =>
                    /\ IsPrefix(data.pending_links, r.data.pending_links)
                    /\ RefsOf(r.out) = <<>>
                    /\ r.arm = "StyledBlock_StartHeading" => r.data = data

C8_Witness ==
    /\ pc = "events"
    /\ open = <<[name |-> "BlockQuote"], [name |-> "Heading"]>>
    /\ data.pending_links # <<>>
    /\ ref_lines = <<>>

C10_ItalicIffOddEmphasis ==
    (pc = "events" /\ Current(state).kind = "Inline") =>
        (Current(state).attrs.style.is_italic <=> EmphasisDepth(open) % 2 = 1)

\* C10, amended: every Emphasis toggles italics, starting from the style of
\* the enclosing block: outside a block quote the style is italic exactly
\* when the number of open Emphasis constructs is odd, inside a block quote
\* (whose own style is italic) exactly when it is even; Strong,
\* Strikethrough, links, headings and list items do not change this.
C10_EmphasisTogglesItalic ==
    (pc = "events" /\ Current(state).kind = "Inline") =>
        (Current(state).attrs.style.is_italic
            <=> ((EmphasisDepth(open) % 2 = 1) # InBlockQuote(open)))

C10_Witness ==
    /\ pc = "events"
    /\ open = <<[name |-> "BlockQuote"], [name |-> "Paragraph"],
                [name |-> "Emphasis"], [name |-> "Strong"]>>
    /\ Current(state).kind = "Inline"
    /\ ~Current(state).attrs.style.is_italic

\* C11: leaving nested inline markup restores the parent exactly.  Whenever
\* the innermost open tag is Emphasis, Strong, Strikethrough or Link, that
\* is after its Start was handled in some State s and after any balanced
\* sequence of inline events, s was an Inline state, it is the chain the
\* current state returns to, and the End event of the tag yields s again:
\* the same mode, style and indent and the same return-to chain.
C11_LeavingRestoresParent ==
    (pc = "events" /\ open # <<>> /\ Last(open).name \in InlineMarkup) =>
        LET s == unwrap(Last(entered))
        IN  /\ Current(s).kind = "Inline"
            /\ ReturnTo(state) = s
            /\ \A e \in Events :
                   Closes(open, e) =>
                       LET r == write_event(settings, state, data, e)
                       IN  r.status = "Ok" /\ r.state = s

C11_Witness ==
    /\ pc = "events"
    /\ open = <<[name |-> "BlockQuote"], [name |-> "Paragraph"],
                [name |-> "Strong"], Link("Inline", "world.md", "")>>
    /\ LET s == unwrap(Last(entered))
           r == write_event(settings, state, data,
                            End(Link("Inline", "world.md", "")))
       IN  /\ r.state = s
           /\ Current(s).attrs.style.is_bold
           /\ Current(s).attrs.indent = 4

\* the link is written as a live hyperlink: the terminal has OSC8 links and
\* the target resolves to a URL
IsLive(st, target) ==
    /\ st.terminal_capabilities.links = "OSC8"
    /\ is_some(resolve_url(st.base_dir, target))

\* the hyperlink escapes written by `out`
Hyperlinks(out) ==
    SelectSeq(out, LAMBDA t : t.what \in {"osc8_open", "osc8_close"})

\* C12: every non-autolink link closed in inline text is rendered in exactly
\* one of two ways.  (a) With OSC8 links and a target that resolves to a URL,
\* Start(Link) writes the hyperlink-open escape for that URL and enters
\* Inline(InlineLink), End(Link) writes the hyperlink-close escape, and
\* neither touches the link buffer or the link counter.  (b) Otherwise
\* Start(Link) writes nothing and stays in Inline(InlineText), and End(Link)
\* returns Ok, writes no hyperlink escape, appends exactly one entry with the
\* next index, the target and the title, and writes the marker '[index]'.
C12_LinkRenderedOneWay ==
    /\ (pc = "events" /\ Current(state).kind = "Inline"
            /\ Current(state).state = InlineText) =>
           \A e \in {x \in StartsOf("Link") : x.tag.type # "Autolink"} :
               LET r == write_event(settings, state, data, e)
               IN  /\ r.status = "Ok"
                   /\ r.data = data
                   /\ IF IsLive(settings, e.tag.target)
                      THEN /\ Current(r.state).state = InlineLink
                           /\ r.out = set_link_url(unwrap(
                                  resolve_url(settings.base_dir,
                                              e.tag.target)))
                      ELSE /\ Current(r.state).state = InlineText
                           /\ r.out = <<>>
    /\ (pc = "events" /\ open # <<>> /\ Last(open).name = "Link"
            /\ Last(open).type # "Autolink") =>
           LET link == Last(open)
               r == write_event(settings, state, data, End(link))
           IN  /\ r.status = "Ok"
               /\ IF IsLive(settings, link.target)
                  THEN /\ Current(state).state = InlineLink
                       /\ r.out = clear_link
                       /\ r.data = data
                  ELSE /\ Current(state).state = InlineText
                       /\ Hyperlinks(r.out) = <<>>
                       /\ Len(r.out) = 1
                       /\ IndicesOf(r.out, "marker") = <<data.next_link>>
                       /\ r.data.pending_links =
                              Append(data.pending_links,
                                     LinkRec(data.next_link, link.target,
                                             link.title))
                       /\ r.data.next_link = data.next_link + 1

\* a link with an unresolvable target on a terminal with OSC8 links, closed
\* while another link is pending
C12_Witness ==
    /\ pc = "events"
    /\ settings.terminal_capabilities.links = "OSC8"
    /\ open # <<>>
    /\ Last(open) = Link("Inline", "world.md", "")
    /\ Current(state).state = InlineText
    /\ Len(data.pending_links) = 1
    /\ LET r == write_event(settings, state, data, End(Last(open)))
       IN  /\ Len(r.data.pending_links) = 2
           /\ IndicesOf(r.out, "marker") = <<2>>

\* C13: an autolink never creates a reference.  End(Link) with link type
\* Autolink in Inline(InlineText) returns Ok with the parent state, the
\* StateData unchanged (nothing appended, no index consumed) and nothing
\* written, so the markers of a render are numbered 1, 2, ... whether or not
\* autolinks come between them.
C13_AutolinkCreatesNoReference ==
    /\ (pc = "events" /\ Current(state).kind = "Inline"
            /\ Current(state).state = InlineText) =>
           \A e \in {x \in EndsOf("Link") : x.tag.type = "Autolink"} :
               LET r == write_event(settings, state, data, e)
               IN  /\ r.status = "Ok"
                   /\ r.state = ReturnTo(state)
                   /\ r.data = data
                   /\ r.out = <<>>
    /\ pc \in {"events", "done"} =>
           \A i \in 1..Len(markers) : markers[i] = i

\* an autolink about to be closed on a terminal without links, after one
\* reference link
C13_Witness ==
    /\ pc = "events"
    /\ settings.terminal_capabilities.links = "None"
    /\ open = <<[name |-> "Paragraph"],
                Link("Autolink", "http://example.com/world", "")>>
    /\ Current(state).state = InlineText
    /\ markers = <<1>>
    /\ LET r == write_event(settings, state, data, End(Last(open)))
       IN  /\ r.data.next_link = 2
           /\ Len(r.data.pending_links) = 1

\* the settings of a terminal without styles and without marks
Plain(st) ==
    [st EXCEPT !.terminal_capabilities.style = "None",
               !.terminal_capabilities.marks = "None"]

\* C14: an absent capability is never an error.  With the capabilities fixed
\* for the render, an Inline(InlineLink) state is part of the chain only when
\* the links capability is OSC8, End(Link) in Inline(InlineLink) returns Ok,
\* and the 'Unreachable code' panic is never hit; and whatever write_event
\* or finish does successfully with the settings of the render it does as
\* well without styles and marks, with the same next State and StateData.
C14_AbsentCapabilityIsNoError ==
    /\ panic # "Unreachable"
    /\ pc = "events" =>
           /\ \A i \in 1..Len(state) :
                  (state[i].kind = "Inline" /\ state[i].state = InlineLink)
                      => settings.terminal_capabilities.links = "OSC8"
           /\ (Current(state).kind = "Inline"
                  /\ Current(state).state = InlineLink) =>
                  \A e \in EndsOf("Link") :
                      write_event(settings, state, data, e).status = "Ok"
           /\ Plain(settings) # settings =>
                  \A e \in Events :
                      LET r == write_event(settings, state, data, e)
                          p == write_event(Plain(settings), state, data, e)
                      IN  r.status = "Ok" =>
                              /\ p.status = "Ok"
                              /\ p.state = r.state
                              /\ p.data = r.data
           /\ LET r == finish(settings, state, data)
                  p == finish(Plain(settings), state, data)
              IN  r.status = "Ok" =>
                      /\ p.status = "Ok"
                      /\ p.state = r.state
                      /\ p.data = r.data

\* a link with a target that resolves, on a terminal with styles and marks
\* but without links: the link is rendered as a reference
C14_Witness ==
    /\ pc = "events"
    /\ settings.terminal_capabilities.links = "None"
    /\ settings.terminal_capabilities.style = "Ansi"
    /\ settings.terminal_capabilities.marks = "ITerm2"
    /\ open = <<[name |-> "Heading"],
                Link("Inline", "http://example.com/world", "")>>
    /\ Current(state).state = InlineText
    /\ LET r == write_event(settings, state, data, End(Last(open)))
           p == write_event(Plain(settings), state, data, End(Last(open)))
       IN  /\ r.status = "Ok"
           /\ p.state = r.state
           /\ p.out # r.out

\* the writes that are no escape sequence: event text, newlines, runs of
\* spaces or of a glyph, list bullets and numbers, and reference text
PlainTokens ==
    {"str", "newline", "repeat", "number", "bullet", "marker", "ref"}

\* C15: with style = None, links = None and marks = None no call writes an
\* escape sequence: every write of write_event and of finish is unstyled
\* event text, a newline, indentation, a bullet or number, a heading, rule
\* or border glyph, or reference text '[n]' / '[n]: target title'; and
\* Start and End of Emphasis, Strong and Strikethrough write nothing at all.
C15_NoEscapesWithoutCapabilities ==
    (pc = "events" /\ settings.terminal_capabilities =
        [style |-> "None", links |-> "None", marks |-> "None"]) =>
        /\ \A e \in Events :
               LET r == write_event(settings, state, data, e)
               IN  /\ \A i \in 1..Len(r.out) :
                          /\ ~r.out[i].styled
                          /\ r.out[i].what \in PlainTokens
                   /\ (e.kind \in {"Start", "End"} /\ r.status = "Ok"
                          /\ e.tag.name \in
                                 {"Emphasis", "Strong", "Strikethrough"})
                          => r.out = <<>>
        /\ LET r == finish(settings, state, data)
           IN  \A i \in 1..Len(r.out) :
                   /\ ~r.out[i].styled
                   /\ r.out[i].what \in PlainTokens

\* strong text after a reference link in a heading, without capabilities
C15_Witness ==
    /\ pc = "events"
    /\ settings.terminal_capabilities =
           [style |-> "None", links |-> "None", marks |-> "None"]
    /\ open = <<[name |-> "Heading"], [name |-> "Strong"]>>
    /\ markers = <<1>>
    /\ Current(state).attrs.style.is_bold
    /\ write_event(settings, state, data, Text("lorem")).out
           = <<Str("lorem")>>
    /\ write_event(settings, state, data, End(Strong)).out = <<>>

\* C16: a failed write ends the render.  Once a write to the sink has
\* failed, push_tty has returned the error (it neither panicked nor
\* returned Ok); the call in which the write failed wrote nothing after it,
\* so the sink holds what it held plus a part of what that call writes; and
\* from then on no event is handled, finish is not called (the links still
\* pending are never written) and nothing is written: no retry.
C16_WriteErrorEndsRender ==
    /\ [](io_error => (pc = "failed" /\ panic = ""))
    /\ [][(io_error' /\ ~io_error) =>
              /\ pc' = "failed"
              /\ IsPrefix(markers, markers')
              /\ IsPrefix(ref_lines, ref_lines')
              /\ IsPrefix(ref_lines',
                          ref_lines \o Indices(data.pending_links))
              /\ Len(markers') <= Len(markers) + 1]_vars
    /\ [][io_error => UNCHANGED <<pc, markers, ref_lines>>]_vars

\* the write of the second of two pending reference lines has failed
C16_Witness ==
    /\ io_error
    /\ pc = "failed"
    /\ markers = <<1, 2>>
    /\ ref_lines = <<1>>

C18_RuleSetsMargin ==
    (pc = "events" /\ IsTopLevel(state)) =>
        LET r == write_event(settings, state, data, Rule)
        IN  /\ r.status = "Ok"
            /\ r.state = <<TopLevel(TopLevelAttrs_margin_before)>>

\* the events that open a block at TopLevel
TopLevelBlockStarts ==
    StartsOf("Paragraph") \cup StartsOf("Heading") \cup StartsOf("BlockQuote")
    \cup StartsOf("CodeBlock") \cup StartsOf("List")

\* what a call wrote after the reference lines of `links`
AfterLinkRefs(out, links) ==
    IF links = <<>> THEN out
    ELSE SubSeq(out, 2 + 2 * Len(links), Len(out))

\* C19: Start(Paragraph), Start(Heading), Start(BlockQuote), Start(CodeBlock)
\* and Start(List) at TopLevel write the margin newline before the block
\* (for a heading: after the flushed reference lines) exactly when
\* margin_before is true, and no other newline except the one that ends the
\* border of a code block; the new nested state returns to
\* TopLevel(margin_before = true); and the initial state has margin_before
\* unset, so nothing is written before the first block of a document.
C19_TopLevelMargin ==
    /\ ~Current(State_default).attrs.margin_before
    /\ (pc = "events" /\ IsTopLevel(state)) =>
           \A e \in TopLevelBlockStarts :
               LET r == write_event(settings, state, data, e)
                   flushed == IF IsStart(e, "Heading")
                              THEN data.pending_links ELSE <<>>
                   out == AfterLinkRefs(r.out, flushed)
               IN  /\ r.status = "Ok"
                   /\ ReturnTo(r.state) =
                          <<TopLevel(TopLevelAttrs_margin_before)>>
                   /\ (out # <<>> /\ out[1] = Newline)
                          <=> Current(state).attrs.margin_before
                   /\ \A i \in 2..Len(out) :
                          out[i] = Newline =>
                              (IsStart(e, "CodeBlock") /\ i = Len(out))
                   /\ state = State_default =>
                          \A i \in 1..Len(out) :
                              out[i] = Newline => i = Len(out)

\* a heading after a paragraph with a link: the margin newline follows the
\* flushed reference line
C19_Witness ==
    /\ pc = "events"
    /\ IsTopLevel(state)
    /\ Current(state).attrs.margin_before
    /\ Len(data.pending_links) = 1
    /\ LET r == write_event(settings, state, data, Start(Heading(1)))
       IN  /\ r.out[2].what = "ref"
           /\ r.out[4] = Newline
           /\ r.out[Len(r.out)].what = "repeat"

\* the events that open an inner block of a StyledBlock
StyledBlockStarts ==
    StartsOf("Paragraph") \cup StartsOf("Heading") \cup StartsOf("List")
    \cup {Rule}

\* C20: inside a StyledBlock, once a paragraph, heading, rule or list has
\* been opened, the StyledBlock frame that is returned to has
\* margin_before = true; and the first inner block of a block quote is not
\* preceded by a margin.
C20_StyledBlockMargin ==
    (pc = "events" /\ Current(state).kind = "StyledBlock") =>
        \A e \in StyledBlockStarts :
            LET r == write_event(settings, state, data, e)
                frame == r.state[Len(state)]
            IN  r.status = "Ok" =>
                    /\ frame.kind = "StyledBlock"
                    /\ frame.attrs.margin_before
                    /\ (r.out # <<>> /\ r.out[1] = Newline)
                           <=> Current(state).attrs.margin_before

\* C21: whenever the state is TopLevel, that is before the first block and
\* after every top-level block that has closed, the output stands at the
\* start of a line: nothing was written yet, or the last character written
\* is a newline.
C21_TopLevelAtLineStart ==
    (pc = "events" /\ IsTopLevel(state)) => line_start = Some(TRUE)

\* the ListBlock frames of a chain, outermost first
ListFrames(s) == SelectSeq(s, LAMBDA f : f.kind = "ListBlock")

\* C22: the chain holds one ListBlock per open list, and the ListBlock of a
\* list that started at n and has had k items so far holds Ordered(n + k),
\* whatever was nested in its items (lists, several paragraphs) and while
\* it is; the ListBlock of an unordered list holds Unordered.  Start(Item)
\* in the ListBlock of an ordered list writes that number n + k, so the k-th
\* item gets n + k - 1 and a nested list counts from its own start; in an
\* unordered list it writes one bullet and no number.
C22_ItemNumbers ==
    pc = "events" =>
        /\ Len(ListFrames(state)) = Len(lists)
        /\ \A i \in 1..Len(lists) :
               ListFrames(state)[i].attrs.item_type =
                   IF is_some(lists[i].start)
                   THEN Ordered(unwrap(lists[i].start) + lists[i].items)
                   ELSE Unordered
        /\ Current(state).kind = "ListBlock" =>
               \A e \in StartsOf("Item") :
                   LET r == write_event(settings, state, data, e)
                       l == Last(lists)
                   IN  /\ r.status = "Ok"
                       /\ IF is_some(l.start)
                          THEN /\ IndicesOf(r.out, "number") =
                                      <<unwrap(l.start) + l.items>>
                               /\ IndicesOf(r.out, "bullet") = <<>>
                          ELSE /\ IndicesOf(r.out, "number") = <<>>
                               /\ IndicesOf(r.out, "bullet") = <<0>>

\* the third item of a list nested in the second item of a list, both
\* starting at 0
C22_Witness ==
    /\ pc = "events"
    /\ open = <<[name |-> "List"], [name |-> "Item"], [name |-> "List"]>>
    /\ lists = <<[start |-> Some(0), nonempty |-> TRUE, items |-> 2],
                 [start |-> Some(0), nonempty |-> TRUE, items |-> 2]>>
    /\ IndicesOf(write_event(settings, state, data, Start(Item)).out,
                 "number") = <<2>>

\* C23: Start(Item) in a ListBlock with indent i writes a newline first
\* exactly when an item of this list was started before, then i spaces, then
\* the number or the bullet and nothing else; the item's state is
\* Inline(ListItemText) with indent i + 4 in an ordered and i + 2 in an
\* unordered list.  In Inline(ListItemText) Start(List) opens a ListBlock
\* and Start(Paragraph) puts a StyledBlock in the place of the item's state,
\* both with exactly the indent of the item.
C23_ItemIndent ==
    pc = "events" =>
        /\ Current(state).kind = "ListBlock" =>
               \A e \in StartsOf("Item") :
                   LET r == write_event(settings, state, data, e)
                       i == Current(state).attrs.indent
                       l == Last(lists)
                       n == Len(r.out)
                       item == Current(r.state)
                   IN  /\ r.status = "Ok"
                       /\ n = IF l.nonempty THEN 3 ELSE 2
                       /\ l.nonempty => r.out[1] = Newline
                       /\ r.out[n - 1] = Repeat(" ", i)
                       /\ r.out[n].what =
                              IF is_some(l.start) THEN "number" ELSE "bullet"
                       /\ item.kind = "Inline"
                       /\ item.state = ListItemText
                       /\ item.attrs.indent =
                              i + IF is_some(l.start) THEN 4 ELSE 2
        /\ (Current(state).kind = "Inline"
               /\ Current(state).state = ListItemText) =>
               /\ \A e \in StartsOf("List") :
                      LET r == write_event(settings, state, data, e)
                      IN  /\ r.status = "Ok"
                          /\ Current(r.state).kind = "ListBlock"
                          /\ Current(r.state).attrs.indent =
                                 Current(state).attrs.indent
               /\ \A e \in StartsOf("Paragraph") :
                      LET r == write_event(settings, state, data, e)
                          block == r.state[Len(state)]
                      IN  /\ r.status = "Ok"
                          /\ block.kind = "StyledBlock"
                          /\ block.attrs.indent = Current(state).attrs.indent

\* the second item of an unordered list nested in an item of an ordered list
C23_Witness ==
    /\ pc = "events"
    /\ open = <<[name |-> "List"], [name |-> "Item"], [name |-> "List"]>>
    /\ is_some(lists[1].start)
    /\ lists[2] = [start |-> None, nonempty |-> TRUE, items |-> 0]
    /\ LET r == write_event(settings, state, data, Start(Item))
       IN  /\ r.out = <<Newline, Repeat(" ", 4), Tok("bullet", 0, " ", "")>>
           /\ Current(r.state).attrs.indent = 6

\* the StyledBlock of an item of the list whose ListBlock is `list`
ItemBlock(list) ==
    StyledBlock(StyledBlockAttrs(
        TRUE,
        list.attrs.indent + (IF list.attrs.item_type = Unordered THEN 2 ELSE 4),
        list.attrs.style))

\* C24: Start(Paragraph) in Inline(ListItemText) writes nothing and puts a
\* StyledBlock with the item's indent and style and margin_before = true
\* between the new Inline(InlineText) and the state the item returns to.
\* While the item is open that StyledBlock stays where it is: under every
\* paragraph of the item, the first and the later ones, and as the current
\* state between them, where Start(Paragraph) is accepted.  End(Item) in
\* the StyledBlock returns to the ListBlock, whose item_type to_next_item
\* has advanced when the item was started, and that ListBlock accepts
\* Start(Item) and End(List).
C24_ItemParagraphs ==
    pc = "events" =>
        /\ (Current(state).kind = "Inline"
               /\ Current(state).state = ListItemText) =>
               \A e \in StartsOf("Paragraph") :
                   LET r == write_event(settings, state, data, e)
                       attrs == Current(state).attrs
                   IN  /\ r.status = "Ok"
                       /\ r.out = <<>>
                       /\ r.state =
                              ReturnTo(state)
                              \o <<StyledBlock(StyledBlockAttrs(
                                       TRUE, attrs.indent, attrs.style)),
                                   Inline(InlineText, attrs)>>
        /\ \A j \in 1..Len(open) :
               open[j].name = "Item" =>
                   /\ state[j].kind = "ListBlock"
                   /\ state[j].attrs.newline_before
                   /\ (j < Len(open) /\ open[j + 1].name = "Paragraph") =>
                          state[j + 1].kind = "StyledBlock"
                   /\ state[j + 1].kind = "StyledBlock" =>
                          state[j + 1] = ItemBlock(state[j])
        /\ (Current(state).kind = "StyledBlock" /\ Last(open).name = "Item") =>
               /\ \A e \in StartsOf("Paragraph") :
                      LET r == write_event(settings, state, data, e)
                      IN  /\ r.status = "Ok"
                          /\ ReturnTo(r.state) = state
               /\ \A e \in EndsOf("Item") :
                      LET r == write_event(settings, state, data, e)
                          l == Last(lists)
                      IN  /\ r.status = "Ok"
                          /\ r.out = <<>>
                          /\ r.state = ReturnTo(state)
                          /\ Current(r.state).kind = "ListBlock"
                          /\ is_some(l.start) =>
                                 Current(r.state).attrs.item_type =
                                     Ordered(unwrap(l.start) + l.items)
                          /\ \A f \in StartsOf("Item") \cup EndsOf("List") :
                                 write_event(settings, r.state, r.data, f)
                                     .status = "Ok"

\* between two paragraphs of the first item of an ordered list
C24_Witness ==
    /\ pc = "events"
    /\ open = <<[name |-> "List"], [name |-> "Item"]>>
    /\ lists = <<[start |-> Some(0), nonempty |-> TRUE, items |-> 1]>>
    /\ Current(state) = StyledBlock(StyledBlockAttrs(TRUE, 4, Style_new))
    /\ LET r == write_event(settings, state, data, End(Item))
       IN  /\ Current(r.state).attrs.item_type = Ordered(1)
           /\ write_event(settings, r.state, r.data, Start(Item)).status = "Ok"

\* C25: End(List) in a ListBlock returns Ok with the state the ListBlock
\* returns to and the StateData unchanged; it writes one newline when that
\* state is TopLevel, which is when no other construct is open around the
\* list, and nothing when the list is nested in a list item or in a
\* StyledBlock.
C25_EndListNewline ==
    (pc = "events" /\ Current(state).kind = "ListBlock") =>
        \A e \in EndsOf("List") :
            LET r == write_event(settings, state, data, e)
            IN  /\ r.status = "Ok"
                /\ r.state = ReturnTo(state)
                /\ r.data = data
                /\ IsTopLevel(r.state) <=> Len(open) = 1
                /\ r.out = IF IsTopLevel(r.state) THEN <<Newline>> ELSE <<>>
                /\ Current(r.state).kind \in {"TopLevel", "StyledBlock", "Inline"}

\* a list with an item, nested in a list item and about to be closed
C25_Witness ==
    /\ pc = "events"
    /\ open = <<[name |-> "List"], [name |-> "Item"], [name |-> "List"]>>
    /\ lists[2].nonempty
    /\ LET r == write_event(settings, state, data, End(List(None)))
       IN  /\ r.out = <<>>
           /\ Current(r.state).state = ListItemText

\* what a call wrote after the margin newline, empty writes left out
AfterMargin(out, attrs) ==
    SelectSeq(IF attrs.margin_before /\ out # <<>> /\ out[1] = Newline
              THEN Tail(out) ELSE out,
              LAMBDA tok : ~IsEmptyWrite(tok))

\* C26: a Rule at TopLevel or in a StyledBlock returns Ok and writes (after
\* the margin) indent spaces, then exactly width - indent rule glyphs, then
\* a newline, where indent is 0 at TopLevel and the indent of the block in a
\* StyledBlock; the width of the terminal is never less than the indent.
C26_RuleWidth ==
    (pc = "events" /\ Current(state).kind \in {"TopLevel", "StyledBlock"}) =>
        LET r == write_event(settings, state, data, Rule)
            attrs == Current(state).attrs
            indent == IF IsTopLevel(state) THEN 0 ELSE attrs.indent
            width == settings.terminal_size.width
            out == AfterMargin(r.out, attrs)
            rule == out[Len(out) - 1]
        IN  /\ width >= indent
            /\ r.status = "Ok"
            /\ Len(out) = IF indent = 0 THEN 2 ELSE 3
            /\ indent > 0 => out[1] = Repeat(" ", indent)
            /\ rule.what = "repeat"
            /\ rule.a = RuleGlyph
            /\ rule.n = width - indent
            /\ out[Len(out)] = Newline

\* the positions in `out` of the writes of one kind
Positions(out, what) == {i \in 1..Len(out) : out[i].what = what}

\* the write is the adornment of a heading of that level
IsAdornment(tok, level) ==
    tok.what = "repeat" /\ tok.a = HeadingGlyph /\ tok.n = level

\* C27: Start(Heading(level)) returns Ok in an Inline state, and the last
\* thing it writes, and its only run of glyphs, is the adornment of exactly
\* `level` glyphs.  At TopLevel the mark is written exactly when the
\* terminal has marks, once, directly before the adornment and after the
\* reference lines and the margin.  In a StyledBlock the margin, the indent
\* of the block and the adornment are written and no mark.  No other call
\* of write_event and no call of finish writes a mark.
C27_HeadingAdornment ==
    pc = "events" =>
        /\ IsTopLevel(state) =>
               \A e \in StartsOf("Heading") :
                   LET r == write_event(settings, state, data, e)
                       out == r.out
                       n == Len(out)
                       marks == settings.terminal_capabilities.marks
                   IN  /\ r.status = "Ok"
                       /\ Current(r.state).kind = "Inline"
                       /\ IsAdornment(out[n], e.tag.level)
                       /\ Positions(out, "repeat") = {n}
                       /\ Positions(out, "mark") =
                              IF marks = "ITerm2" THEN {n - 1} ELSE {}
                       /\ \A i \in 1..(n - 1) :
                              out[i].what \in {"ref", "newline"} <=>
                                  i < (IF marks = "ITerm2" THEN n - 1 ELSE n)
        /\ Current(state).kind = "StyledBlock" =>
               \A e \in StartsOf("Heading") :
                   LET r == write_event(settings, state, data, e)
                       attrs == Current(state).attrs
                       n == Len(r.out)
                   IN  /\ r.status = "Ok"
                       /\ Current(r.state).kind = "Inline"
                       /\ n = IF attrs.margin_before THEN 3 ELSE 2
                       /\ attrs.margin_before => r.out[1] = Newline
                       /\ r.out[n - 1] = Repeat(" ", attrs.indent)
                       /\ IsAdornment(r.out[n], e.tag.level)
        /\ \A e \in Events :
               LET r == write_event(settings, state, data, e)
               IN  Positions(r.out, "mark") # {} =>
                       /\ r.arm = "TopLevel_StartHeading"
                       /\ settings.terminal_capabilities.marks = "ITerm2"
        /\ Positions(finish(settings, state, data).out, "mark") = {}

\* a heading of level 2 after a paragraph with a reference link, on a
\* terminal with marks
C27_Witness ==
    /\ pc = "events"
    /\ IsTopLevel(state)
    /\ settings.terminal_capabilities.marks = "ITerm2"
    /\ Len(data.pending_links) = 1
    /\ LET out == write_event(settings, state, data, Start(Heading(2))).out
       IN  /\ Len(out) = 6
           /\ out[2].what = "ref"
           /\ out[4] = Newline
           /\ out[5].what = "mark"
           /\ IsAdornment(out[6], 2)

\* the kinds of code block whose info string names a known syntax
HighlightedKinds ==
    {k \in CodeBlockKinds :
        /\ is_some(syntax_token_of(k))
        /\ is_some(find_syntax_by_token(unwrap(syntax_token_of(k))))}

\* C28: on a terminal with styling, the first two Text events of a code
\* block with a known syntax are written as one highlighter writes them
\* that is created at Start(CodeBlock) and fed both texts in turn: the
\* second text is read in the scope the first text left the parser in.
C28_HighlighterCarried ==
    (/\ pc = "events"
     /\ IsTopLevel(state)
     /\ settings.terminal_capabilities.style # "None") =>
        \A k \in HighlightedKinds : \A t1, t2 \in Texts :
            LET r0 == write_event(settings, state, data, Start(CodeBlock(k)))
                r1 == write_event(settings, r0.state, r0.data, Text(t1))
                r2 == write_event(settings, r1.state, r1.data, Text(t2))
                syntax == find_syntax_by_token(unwrap(syntax_token_of(k)))
                h0 == HighlightLines_new(unwrap(syntax))
                h1 == HighlightLines_highlight(h0, t1)
                h2 == HighlightLines_highlight(h1.highlighter, t2)
            IN  /\ r0.status = "Ok" /\ r1.status = "Ok" /\ r2.status = "Ok"
                /\ r1.out = write_as_ansi(h1.regions)
                /\ r2.out = write_as_ansi(h2.regions)

\* C29: a Text event in a HighlightBlock returns Ok with the state and the
\* data it was given and writes the text in one write: the plain text when
\* the terminal has no styling; the text in yellow when it has styling and
\* the block has no syntax token or a token of no known syntax; the text
\* as the highlighter of the syntax reads it when the terminal has styling
\* and the token names a known syntax, and only then.
C29_CodeText ==
    (pc = "events" /\ Current(state).kind = "HighlightBlock") =>
        \A t \in Texts :
            LET r == write_event(settings, state, data, Text(t))
                token == Current(state).attrs.syntax_token
                known == is_some(token) /\ unwrap(token) \in KnownSyntaxes
                plain == settings.terminal_capabilities.style = "None"
            IN  /\ r.status = "Ok"
                /\ r.state = state
                /\ r.data = data
                /\ Len(r.out) = 1
                /\ r.out[1].a = t
                /\ r.out[1].what = "highlighted" <=> ~plain /\ known
                /\ plain => r.out = <<Str(t)>>
                /\ ~plain /\ ~known =>
                       r.out = <<[Str(t) EXCEPT
                                    !.styled = TRUE,
                                    !.style = fg(Style_new, "Yellow")]>>
                /\ ~plain /\ known => r.out[1].b = unwrap(token)

\* a styled terminal in a code block of a language without a syntax, after
\* a paragraph with a reference link
C29_Witness ==
    /\ pc = "events"
    /\ Current(state).kind = "HighlightBlock"
    /\ Current(state).attrs.syntax_token = Some("nosuchlang")
    /\ settings.terminal_capabilities.style # "None"
    /\ data.pending_links # <<>>
    /\ write_event(settings, state, data, Text("lorem")).out[1].style
           = fg(Style_new, "Yellow")

\* one border line on a terminal of that width: the glyphs, green where
\* the terminal has styling, and the end of the line
BorderLine(capabilities, width) ==
    LET glyphs == Repeat(BorderGlyph,
                         IF width < BorderWidth THEN width ELSE BorderWidth)
    IN  <<IF capabilities.style = "None" THEN glyphs
          ELSE [glyphs EXCEPT !.styled = TRUE,
                              !.style = fg(Style_new, "Green")],
          Newline>>

\* C30: at TopLevel, on a narrow and on a wide terminal, Start(CodeBlock)
\* writes the margin and one border line of min(width, 20) glyphs, keeps
\* the data and enters a HighlightBlock over TopLevel(margin_before = true)
\* whose syntax token is the info string of a fenced block that has one and
\* absent otherwise.  End(CodeBlock) in a HighlightBlock writes one border
\* line and returns that TopLevel.  While the events come, the border
\* lines written are twice the code blocks started, less one inside a code
\* block; when push_tty has returned Ok they are twice the code blocks.
C30_BordersInPairs ==
    /\ (pc = "events" /\ IsTopLevel(state)) =>
           \A e \in StartsOf("CodeBlock") :
               \A width \in {NarrowWidth, DefaultWidth} :
                   LET st == [settings EXCEPT !.terminal_size.width = width]
                       r == write_event(st, state, data, e)
                       kind == e.tag.kind
                   IN  /\ r.status = "Ok"
                       /\ r.out = MarginBefore(Current(state).attrs)
                                  \o BorderLine(st.terminal_capabilities,
                                                width)
                       /\ Borders(r.out) = 1
                       /\ r.data = data
                       /\ Len(r.state) = 2
                       /\ r.state[1] = TopLevel(TopLevelAttrs_margin_before)
                       /\ r.state[2].kind = "HighlightBlock"
                       /\ r.state[2].attrs.syntax_token =
                              IF kind.fenced /\ kind.name # ""
                              THEN Some(kind.name) ELSE None
    /\ (pc = "events" /\ Current(state).kind = "HighlightBlock") =>
           \A e \in EndsOf("CodeBlock") :
               LET r == write_event(settings, state, data, e)
               IN  /\ r.status = "Ok"
                   /\ r.out = BorderLine(settings.terminal_capabilities,
                                         settings.terminal_size.width)
                   /\ Borders(r.out) = 1
                   /\ r.data = data
                   /\ r.state = <<TopLevel(TopLevelAttrs_margin_before)>>
    /\ (pc = "events" /\ borders # None) =>
           unwrap(borders).borders =
               2 * unwrap(borders).blocks
               - (IF Current(state).kind = "HighlightBlock" THEN 1 ELSE 0)
    /\ (pc = "done" /\ borders # None) =>
           unwrap(borders).borders = 2 * unwrap(borders).blocks

\* push_tty has returned Ok for a stream with a code block
C30_Witness ==
    /\ pc = "done"
    /\ borders = Some([blocks |-> 1, borders |-> 2])
    /\ hyperlink = "closed"
    /\ machine = None
    /\ style_pass = None
    /\ margin_pass = None
    /\ conversion = None

\* the frame is an Inline in that InlineState
IsInline(frame, istate) == frame.kind = "Inline" /\ frame.state = istate

\* C31: while the events come and when push_tty has returned Ok, the return-to
\* chain starts from one TopLevel and holds no other, and each nested frame
\* stands on a parent of these kinds: a HighlightBlock on TopLevel, a
\* StyledBlock on TopLevel or a ListBlock, an Inline(ListItemText) on a
\* ListBlock, a ListBlock on TopLevel, a StyledBlock or an
\* Inline(ListItemText), an Inline(InlineLink) on an Inline.
C31_ChainShape ==
    pc \in {"events", "done"} =>
        /\ Len(state) >= 1
        /\ {i \in 1..Len(state) : state[i].kind = "TopLevel"} = {1}
        /\ \A i \in 2..Len(state) :
               LET frame == state[i]
                   parent == state[i - 1]
               IN  /\ frame.kind = "HighlightBlock" =>
                          parent.kind = "TopLevel"
                   /\ frame.kind = "StyledBlock" =>
                          parent.kind \in {"TopLevel", "ListBlock"}
                   /\ IsInline(frame, ListItemText) =>
                          parent.kind = "ListBlock"
                   /\ frame.kind = "ListBlock" =>
                          \/ parent.kind \in {"TopLevel", "StyledBlock"}
                          \/ IsInline(parent, ListItemText)
                   /\ IsInline(frame, InlineLink) => parent.kind = "Inline"

\* emphasis in the text of a list item of a list in a block quote
C31_Witness ==
    /\ pc = "events"
    /\ Len(state) = 5
    /\ state[2].kind = "StyledBlock"
    /\ state[3].kind = "ListBlock"
    /\ IsInline(state[4], ListItemText)
    /\ IsInline(state[5], InlineText)

\* the events that are text of a line or a break between two lines
InlineContentEvents ==
    {Text(x) : x \in Texts} \cup {Code(x) : x \in Texts}
    \cup {SoftBreak, HardBreak}

\* C32: in every Inline state a Text, Code, SoftBreak or HardBreak event
\* returns Ok with the state and the data it was given; a Text or Code
\* event writes its text in one write, a SoftBreak or HardBreak event
\* writes a newline and then a run of spaces as long as the indent of the
\* state.
C32_InlineContentKeepsState ==
    (pc = "events" /\ Current(state).kind = "Inline") =>
        \A e \in InlineContentEvents :
            LET r == write_event(settings, state, data, e)
            IN  /\ r.status = "Ok"
                /\ r.state = state
                /\ r.data = data
                /\ e.kind \in {"Text", "Code"} =>
                       /\ Len(r.out) = 1
                       /\ r.out[1].what = "str"
                       /\ r.out[1].a = e.text
                /\ e.kind \in {"SoftBreak", "HardBreak"} =>
                       r.out = <<Newline,
                                 Repeat(" ", Current(state).attrs.indent)>>

\* strong text in a list item in a block quote, with a reference link
\* pending
C32_Witness ==
    /\ pc = "events"
    /\ Current(state).kind = "Inline"
    /\ Current(state).attrs.indent = 6
    /\ Current(state).attrs.style.is_bold
    /\ data.pending_links # <<>>
    /\ write_event(settings, state, data, SoftBreak).out[2].n = 6

\* the frames that have an indent and a style
HasIndent(frame) == frame.kind \in {"StyledBlock", "ListBlock", "Inline"}

IndentOf(frame) == IF HasIndent(frame) THEN frame.attrs.indent ELSE 0

\* frame b stands where frame a stood and differs from it at most in
\* margin_before (TopLevel, StyledBlock) or in item_type and newline_before
\* (ListBlock)
RewrittenInPlace(a, b) ==
    \/ b = a
    \/ a.kind = "TopLevel" /\ b.kind = "TopLevel"
    \/ /\ a.kind = "StyledBlock" /\ b.kind = "StyledBlock"
       /\ [b.attrs EXCEPT !.margin_before = a.attrs.margin_before] = a.attrs
    \/ /\ a.kind = "ListBlock" /\ b.kind = "ListBlock"
       /\ [b.attrs EXCEPT !.item_type = a.attrs.item_type,
                          !.newline_before = a.attrs.newline_before]
              = a.attrs

\* as RewrittenInPlace, or the text of a list item has become the
\* StyledBlock of its paragraphs, with the indent and the style it had
RewrittenOrItemBlock(a, b) ==
    \/ RewrittenInPlace(a, b)
    \/ /\ IsInline(a, ListItemText)
       /\ b = StyledBlock(StyledBlockAttrs(TRUE, a.attrs.indent,
                                            a.attrs.style))

\* one call of write_event or finish that returned Ok: every frame that
\* was in the chain and still is satisfies Kept, every frame that was
\* added has at least the indent of its parent, and the frame added for
\* inline markup is an Inline with the indent of the Inline it stands on
FramesStep(Kept(_, _)) ==
    (pc = "events" /\ pc' \in {"events", "done"}) =>
        /\ \A i \in 1..Min(Len(state), Len(state')) :
               Kept(state[i], state'[i])
        /\ \A i \in (Len(state) + 1)..Len(state') :
               HasIndent(state'[i]) =>
                   IndentOf(state'[i]) >= IndentOf(state'[i - 1])
        /\ (/\ Len(open') = Len(open) + 1
            /\ Last(open').name \in InlineMarkup) =>
               /\ Len(state') = Len(state) + 1
               /\ SubSeq(state', 1, Len(state)) = state
               /\ Current(state).kind = "Inline"
               /\ Current(state').kind = "Inline"
               /\ Current(state').attrs.indent = Current(state).attrs.indent

\* C33 as stated: a call rewrites a frame of the chain only in
\* margin_before, item_type and newline_before; a new frame has at least
\* the indent of its parent; an Inline opened by Emphasis, Strong,
\* Strikethrough or Link has the indent of its parent Inline.
C33_OnlyAttrsRewritten == [][FramesStep(RewrittenInPlace)]_vars

\* C33, amended: the same, except that Start(Paragraph) in the text of a
\* list item puts a StyledBlock with margin_before set in the place of the
\* Inline(ListItemText), with its indent and its style.  No call changes
\* the indent or the style at a place of the chain.
C33_IndentAndStyleFixed == [][FramesStep(RewrittenOrItemBlock)]_vars

\* strong text in the paragraph of a list item: the item's text has become
\* a StyledBlock on the ListBlock, which to_next_item has rewritten
C33_Witness ==
    /\ pc = "events"
    /\ Len(state) = 5
    /\ state[2].kind = "ListBlock"
    /\ state[2].attrs.newline_before
    /\ state[3].kind = "StyledBlock"
    /\ state[3].attrs.indent = 2
    /\ IsInline(state[4], InlineText)
    /\ IsInline(state[5], InlineText)
    /\ state[5].attrs.style.is_bold
    /\ state[5].attrs.indent = 2

----------------------------------------------------------------------------
(* src/render_machine.rs: InlineStyle, process_event and render. *)

\* Tag::Header(level), Tag::Code and Tag::CodeBlock(language) of the
\* pulldown_cmark that render_machine.rs and render.rs are written for
Header(level) == [name |-> "Header", level |-> level]
CodeSpan == [name |-> "Code"]
CodeBlockIn(language) == [name |-> "CodeBlock", language |-> language]
Languages == {"", "rust", "nosuchlang"}

MachineTags ==
    {Paragraph, BlockQuote, Emphasis, Strong, Strikethrough, CodeSpan}
    \cup {Header(l) : l \in Levels}
    \cup {CodeBlockIn(x) : x \in Languages}

MachineEvents ==
    {Start(t) : t \in MachineTags} \cup {End(t) : t \in MachineTags}
    \cup {Text("lorem"), SoftBreak, HardBreak}

InlineTagNames == {"Emphasis", "Strong", "Strikethrough", "Code"}

\* the events a markdown parser can emit when `o` is open
MachineLegal(o, e) ==
    LET ctx == IF o = <<>> THEN "Document" ELSE Last(o).name
    IN  \/ e.kind = "End" /\ o # <<>> /\ e.tag = Last(o)
        \/ /\ ctx \in {"Document", "BlockQuote"}
           /\ e.kind = "Start"
           /\ e.tag.name \in {"Paragraph", "Header", "CodeBlock",
                               "BlockQuote"}
        \/ /\ ctx \in {"Paragraph", "Header", "Emphasis", "Strong",
                        "Strikethrough"}
           /\ \/ e.kind \in {"Text", "SoftBreak", "HardBreak"}
              \/ e.kind = "Start" /\ e.tag.name \in InlineTagNames
        \/ ctx \in {"Code", "CodeBlock"} /\ e.kind = "Text"

\* InlineStyle::default()
InlineStyle_default ==
    [emphasis_level |-> 0, style |-> None, parent_styles |-> <<>>]

push_style(self, style) ==
    [self EXCEPT
        !.parent_styles = IF is_some(self.style)
                          THEN Append(@, unwrap(self.style)) ELSE @,
        !.style = Some(style)]

push_changed_style(self, F(_)) ==
    LET style == IF is_some(self.style) THEN unwrap(self.style)
                 ELSE Style_new
    IN  push_style(self, F(style))

pop_style(self) ==
    [self EXCEPT
        !.style = IF self.parent_styles = <<>> THEN None
                  ELSE Some(Last(self.parent_styles)),
        !.parent_styles = IF @ = <<>> THEN <<>> ELSE Front(@)]

toggle_italics_for_emphasis(self) ==
    LET is_italic == self.emphasis_level % 2 = 1
        Toggled(s) == [s EXCEPT !.is_italic = is_italic]
    IN  push_changed_style(self, Toggled)

\* emphasis_level is a usize; a markdown parser yields End(Emphasis) only
\* after its Start, so the level is at least 1 here
remove_emphasis(self) ==
    toggle_italics_for_emphasis(
        [self EXCEPT !.emphasis_level = @ - 1])

add_emphasis(self) ==
    toggle_italics_for_emphasis(
        [self EXCEPT !.emphasis_level = @ + 1])

\* RenderState
Initial == [kind |-> "Initial"]
MachineTopLevel == [kind |-> "TopLevel"]
StyledInline(inline) == [kind |-> "StyledInline", inline |-> inline]
RawCodeBlock == [kind |-> "RawCodeBlock"]
HighlightedCodeBlock(syntax) ==
    [kind |-> "HighlightedCodeBlock", syntax |-> syntax]
Error == [kind |-> "Error"]

\* what process_event returns or how it ends, and what it wrote
Processed(result, next, out) ==
    [result |-> result, state |-> next, out |-> out]

\* if let Ansi(ansi) = capability { ansi.write_styled(..) } else { write!(..) }
machine_write(capability, style, tok) ==
    IF capability = "None" THEN <<tok>>
    ELSE <<[tok EXCEPT !.styled = TRUE, !.style = style]>>

\* start_header with a margin of its own
start_header_margin(level, capability) ==
    LET style == bold(fg(Style_new, "Blue"))
    IN  Processed("Ok",
                  StyledInline(push_style(InlineStyle_default, style)),
                  <<Newline>>
                  \o machine_write(capability, style,
                                   Repeat(HeadingGlyph, level)))

start_header(level, capability) ==
    LET style == bold(fg(Style_new, "Blue"))
    IN  Processed("Ok",
                  StyledInline(push_style(InlineStyle_default, style)),
                  machine_write(capability, style,
                                Repeat(HeadingGlyph, level)))

machine_write_border(capability, size) ==
    machine_write(capability, fg(Style_new, "Green"),
                  Repeat(BorderGlyph, size))
    \o <<Newline>>

start_codeblock(language, capability) ==
    LET syntax == IF language = "" THEN None
                  ELSE find_syntax_by_token(language)
    IN  Processed("Ok",
                  IF is_some(syntax) THEN HighlightedCodeBlock(unwrap(syntax))
                  ELSE RawCodeBlock,
                  machine_write_border(capability, BorderWidth))

end_codeblock(capability) ==
    Processed("Ok", MachineTopLevel,
              machine_write_border(capability, BorderWidth))

\* margin(x): x after writeln!(writer)
WithMargin(x) == [x EXCEPT !.out = <<Newline>> \o @]

\* process_event: match (state, event), first matching arm wins
process_event(st, e, capability) ==
    LET initial == st.kind = "Initial"
        top == st.kind = "TopLevel"
        inline == st.kind = "StyledInline"
    IN  IF initial /\ IsStart(e, "Header")
        THEN start_header(e.tag.level, capability)
        ELSE IF top /\ IsStart(e, "Header")
        THEN WithMargin(start_header(e.tag.level, capability))
        ELSE IF initial /\ IsStart(e, "Paragraph")
        THEN Processed("Ok", StyledInline(InlineStyle_default), <<>>)
        ELSE IF top /\ IsStart(e, "Paragraph")
        THEN Processed("Ok", StyledInline(InlineStyle_default), <<Newline>>)
        ELSE IF inline /\ IsStart(e, "Strong")
        THEN Processed("Ok",
                       StyledInline(push_changed_style(st.inline, bold)),
                       <<>>)
        ELSE IF inline /\ IsStart(e, "Strikethrough")
        THEN Processed("Ok",
                       StyledInline(push_changed_style(st.inline,
                                                       strikethrough)),
                       <<>>)
        ELSE IF inline /\ IsStart(e, "Code")
        THEN LET Yellow(x) == fg(x, "Yellow")
             IN  Processed("Ok",
                           StyledInline(push_changed_style(st.inline,
                                                           Yellow)),
                           <<>>)
        ELSE IF inline /\ IsStart(e, "Emphasis")
        THEN Processed("Ok", StyledInline(add_emphasis(st.inline)), <<>>)
        ELSE IF inline /\ (\/ IsEnd(e, "Strong")
                           \/ IsEnd(e, "Strikethrough")
                           \/ IsEnd(e, "Code"))
        THEN Processed("Ok", StyledInline(pop_style(st.inline)), <<>>)
        ELSE IF inline /\ IsEnd(e, "Emphasis")
        THEN Processed("Ok", StyledInline(remove_emphasis(st.inline)), <<>>)
        ELSE IF inline /\ e.kind = "Text"
        THEN Processed("Ok", st,
                       machine_write(capability,
                                     IF is_some(st.inline.style)
                                     THEN unwrap(st.inline.style)
                                     ELSE Style_new,
                                     Str(e.text)))
        ELSE IF inline /\ e.kind \in {"SoftBreak", "HardBreak"}
        THEN Processed("Ok", st, <<Newline>>)
        ELSE IF inline /\ (IsEnd(e, "Paragraph") \/ IsEnd(e, "Header"))
        THEN Processed("Ok", MachineTopLevel, <<Newline>>)
        ELSE IF initial /\ IsStart(e, "CodeBlock")
        THEN start_codeblock(e.tag.language, capability)
        ELSE IF top /\ IsStart(e, "CodeBlock")
        THEN WithMargin(start_codeblock(e.tag.language, capability))
        ELSE IF st.kind = "RawCodeBlock" /\ e.kind = "Text"
        THEN Processed("Ok", st,
                       machine_write(capability, fg(Style_new, "Yellow"),
                                     Str(e.text)))
        ELSE IF st.kind = "HighlightedCodeBlock" /\ e.kind = "Text"
        THEN Processed("unimplemented", st, <<>>)
        ELSE IF st.kind \in {"RawCodeBlock", "HighlightedCodeBlock"}
                /\ IsEnd(e, "CodeBlock")
        THEN end_codeblock(capability)
        ELSE Processed("Ok", Error, <<>>)

\* the producer's side of one event: the open tags, and for each open
\* inline tag the InlineStyle its Start met (None for the others)
MachineOpenAfter(o, e) ==
    IF e.kind = "Start" THEN Append(o, e.tag)
    ELSE IF e.kind = "End" THEN Front(o)
    ELSE o

MachineEnteredAfter(en, st, e) ==
    IF e.kind = "Start"
    THEN Append(en, IF e.tag.name \in InlineTagNames /\ st.kind = "StyledInline"
                    THEN Some(st.inline) ELSE None)
    ELSE IF e.kind = "End" THEN Front(en)
    ELSE en

\* the renders that are explored
MachineWithinBounds(o, next) ==
    /\ Len(o) <= MaxInline + 1
    /\ next.kind = "StyledInline" =>
           Len(next.inline.parent_styles) <= MaxStyles

\* one turn of the for loop of render: the event met a state and
\* process_event returned the next one
On_render_event ==
    /\ machine # None
    /\ unwrap(machine).pc = "events"
    /\ \E e \in MachineEvents :
           LET m == unwrap(machine)
               r == process_event(m.state, e, m.capability)
               o == MachineOpenAfter(m.open, e)
           IN  /\ MachineLegal(m.open, e)
               /\ r.result = "Ok"
               /\ r.state # Error
               /\ MachineWithinBounds(o, r.state)
               /\ machine' = Some([m EXCEPT
                                      !.state = r.state,
                                      !.open = o,
                                      !.entered =
                                          MachineEnteredAfter(@, m.state, e),
                                      !.written = r.out,
                                      !.processed = TRUE])
    /\ UNCHANGED <<style_pass, margin_pass, conversion>>
    /\ UNCHANGED tty_vars

\* process_event returned Error: panic!("Rendering errored: {}", error_msg);
\* next_state is not assigned to state
On_render_error ==
    /\ machine # None
    /\ unwrap(machine).pc = "events"
    /\ \E e \in MachineEvents :
           LET m == unwrap(machine)
               error_msg == <<m.state, e>>
               r == process_event(m.state, e, m.capability)
           IN  /\ MachineLegal(m.open, e)
               /\ r.result = "Ok"
               /\ r.state = Error
               /\ machine' = Some([m EXCEPT
                                      !.pc = "panicked",
                                      !.msg = Some(error_msg),
                                      !.open = <<>>,
                                      !.entered = <<>>,
                                      !.written = r.out,
                                      !.processed = TRUE])
    /\ UNCHANGED <<style_pass, margin_pass, conversion>>
    /\ UNCHANGED tty_vars

\* process_event met unimplemented!()
On_render_unimplemented ==
    /\ machine # None
    /\ unwrap(machine).pc = "events"
    /\ \E e \in MachineEvents :
           LET m == unwrap(machine)
               r == process_event(m.state, e, m.capability)
           IN  /\ MachineLegal(m.open, e)
               /\ r.result = "unimplemented"
               /\ machine' = Some([m EXCEPT
                                      !.pc = "panicked",
                                      !.open = <<>>,
                                      !.entered = <<>>,
                                      !.written = r.out,
                                      !.processed = TRUE])
    /\ UNCHANGED <<style_pass, margin_pass, conversion>>
    /\ UNCHANGED tty_vars

\* the events have ended: render returns Ok(())
On_render_return ==
    /\ machine # None
    /\ unwrap(machine).pc = "events"
    /\ unwrap(machine).open = <<>>
    /\ machine' = Some([unwrap(machine) EXCEPT !.pc = "done"])
    /\ UNCHANGED <<style_pass, margin_pass, conversion>>
    /\ UNCHANGED tty_vars

\* push_tty is not called
NoPushTty ==
    /\ settings = Settings("None", "None", "None", DefaultWidth, "docs")
    /\ state = State_default
    /\ data = StateData_default
    /\ pc = "idle"
    /\ panic = ""
    /\ open = <<>>
    /\ conforming = TRUE
    /\ entered = <<>>
    /\ lists = <<>>
    /\ markers = <<>>
    /\ ref_lines = <<>>
    /\ io_error = FALSE
    /\ render = "first"
    /\ line_start = None
    /\ borders = None
    /\ hyperlink = "closed"

InitRenderMachine ==
    /\ NoPushTty
    /\ machine \in {Some([state |-> Initial, capability |-> c,
                          pc |-> "events", msg |-> None, open |-> <<>>,
                          entered |-> <<>>, written |-> <<>>,
                          processed |-> FALSE]) :
                        c \in StyleCapabilities}
    /\ style_pass = None
    /\ margin_pass = None
    /\ conversion = None

NextRenderMachine ==
    \/ On_render_event
    \/ On_render_error
    \/ On_render_unimplemented
    \/ On_render_return

SpecRenderMachine == InitRenderMachine /\ [][NextRenderMachine]_vars

\* the innermost open tag is an inline one whose Start met an InlineStyle
InlineTagOpen(m) ==
    /\ m.pc = "events"
    /\ m.state.kind = "StyledInline"
    /\ m.open # <<>>
    /\ Last(m.open).name \in InlineTagNames
    /\ is_some(Last(m.entered))

\* C35: in render_machine's InlineStyle the End of Strong, Strikethrough,
\* Code or Emphasis undoes its Start: when the innermost open inline tag
\* ends, emphasis_level, style and parent_styles are again what the Start
\* of that tag met, so text after the tag is styled as text before it.
C35_InlineStyleBalanced ==
    machine # None =>
        LET m == unwrap(machine)
        IN  InlineTagOpen(m) =>
                process_event(m.state, End(Last(m.open)), m.capability).state
                    = StyledInline(unwrap(Last(m.entered)))

BlockStarts ==
    {Start(t) : t \in {x \in MachineTags :
                          x.name \in {"Header", "Paragraph", "CodeBlock"}}}

\* C36: render of render_machine writes no newline before the first block
\* (state Initial) and exactly one newline, before anything else the block
\* writes, for a header, paragraph or code block started in TopLevel;
\* Initial is never the state after an event; Error is never the state an
\* event meets, and a render that panicked with a message names in it the
\* state and the event that process_event turned into Error.
C36_MarginsAndError ==
    machine # None =>
        LET m == unwrap(machine)
        IN  /\ \A e \in BlockStarts :
                   LET first == process_event(Initial, e, m.capability)
                       later == process_event(MachineTopLevel, e,
                                              m.capability)
                   IN  /\ first.out = <<>> \/ first.out[1] # Newline
                       /\ later.out = <<Newline>> \o first.out
                       /\ later.state = first.state
            /\ m.processed /\ m.pc # "panicked" => m.state # Initial
            /\ m.state # Error
            /\ is_some(m.msg) =>
                   /\ m.pc = "panicked"
                   /\ unwrap(m.msg)[1] = m.state
                   /\ process_event(m.state, unwrap(m.msg)[2],
                                    m.capability).state = Error
            /\ m.pc = "events" /\ m.processed /\ Len(m.open) = 1
               /\ Last(m.open).name \in {"Header", "Paragraph", "CodeBlock"}
               /\ m.state.kind \in {"RawCodeBlock", "HighlightedCodeBlock"}
               => m.written # <<>>

\* a highlighted code block after the first block has been started behind
\* its margin
C36_Witness ==
    /\ machine # None
    /\ unwrap(machine).processed
    /\ unwrap(machine).state.kind = "HighlightedCodeBlock"
    /\ unwrap(machine).written # <<>>
    /\ unwrap(machine).written[1] = Newline

----------------------------------------------------------------------------
(* src/render.rs: the passes style_text and inject_margins. *)

\* Tag::Rule of the pulldown_cmark render.rs is written for
RuleTag == [name |-> "Rule"]

\* PassEvent::Markdown(event) and PassEvent::Print(print_event)
Markdown(e) == [pass |-> "Markdown", event |-> e]
PassPrint(p) == [pass |-> "Print", print |-> p]
\* PrintEvent::StyledText(text, style) and PrintEvent::Newline
StyledText(text, style) ==
    [print |-> "StyledText", text |-> text, style |-> style]
PrintNewline == [print |-> "Newline"]

PassTags == MachineTags \cup {List(None), Item, RuleTag}

PassEvents ==
    {Start(t) : t \in PassTags} \cup {End(t) : t \in PassTags}
    \cup {Text("lorem"), SoftBreak}

\* the events a markdown parser can emit when `o` is open
PassLegal(o, e) ==
    LET ctx == IF o = <<>> THEN "Document" ELSE Last(o).name
    IN  \/ e.kind = "End" /\ o # <<>> /\ e.tag = Last(o)
        \/ /\ ctx \in {"Document", "BlockQuote", "Item"}
           /\ e.kind = "Start"
           /\ e.tag.name \in {"Paragraph", "Header", "CodeBlock",
                               "BlockQuote", "List", "Rule"}
        \/ ctx = "List" /\ e = Start(Item)
        \/ /\ ctx \in {"Paragraph", "Header", "Item", "Emphasis", "Strong",
                        "Strikethrough"}
           /\ \/ e.kind \in {"Text", "SoftBreak"}
              \/ e.kind = "Start" /\ e.tag.name \in InlineTagNames
        \/ ctx \in {"Code", "CodeBlock"} /\ e.kind = "Text"

\* the state of the closure of style_text before the first event
style_text_new ==
    [previous_styles |-> <<>>, current_style |-> Style_new,
     emphasis_level |-> 0, panicked |-> FALSE]

\* Style { is_italic: emphasis_level % 2 == 1, ..current_style }
WithItalics(style, emphasis_level) ==
    [style EXCEPT !.is_italic = emphasis_level % 2 = 1]

\* Markdown(Start(tag)) where Code does not push
style_text_Start_code_unpushed(self, tag) ==
    LET pushed == [self EXCEPT !.previous_styles =
                                  Append(@, self.current_style)]
    IN  IF tag.name = "Header"
        THEN [pushed EXCEPT !.current_style = bold(fg(Style_new, "Blue"))]
        ELSE IF tag.name = "BlockQuote"
        THEN [pushed EXCEPT
                 !.emphasis_level = @ + 1,
                 !.current_style =
                     fg(WithItalics(@, self.emphasis_level + 1), "Green")]
        ELSE IF tag.name = "Strikethrough"
        THEN [pushed EXCEPT !.current_style = strikethrough(@)]
        ELSE IF tag.name = "Strong"
        THEN [pushed EXCEPT !.current_style = bold(@)]
        ELSE IF tag.name = "CodeBlock"
        THEN [pushed EXCEPT !.current_style = fg(@, "Yellow")]
        ELSE IF tag.name = "Emphasis"
        THEN [pushed EXCEPT
                 !.emphasis_level = @ + 1,
                 !.current_style = WithItalics(@, self.emphasis_level + 1)]
        ELSE self

\* Markdown(Start(tag)) => match tag
style_text_Start(self, tag) ==
    LET pushed == [self EXCEPT !.previous_styles =
                                  Append(@, self.current_style)]
    IN  IF tag.name = "Header"
        THEN [pushed EXCEPT !.current_style = bold(fg(Style_new, "Blue"))]
        ELSE IF tag.name = "BlockQuote"
        THEN [pushed EXCEPT
                 !.emphasis_level = @ + 1,
                 !.current_style =
                     fg(WithItalics(@, self.emphasis_level + 1), "Green")]
        ELSE IF tag.name = "Strikethrough"
        THEN [pushed EXCEPT !.current_style = strikethrough(@)]
        ELSE IF tag.name = "Strong"
        THEN [pushed EXCEPT !.current_style = bold(@)]
        ELSE IF tag.name \in {"Code", "CodeBlock"}
        THEN [pushed EXCEPT !.current_style = fg(@, "Yellow")]
        ELSE IF tag.name = "Emphasis"
        THEN [pushed EXCEPT
                 !.emphasis_level = @ + 1,
                 !.current_style = WithItalics(@, self.emphasis_level + 1)]
        ELSE self

\* previous_styles.pop().unwrap(): a panic when the stack is empty
PopUnwrap(self) ==
    IF self.previous_styles = <<>>
    THEN [self EXCEPT !.panicked = TRUE]
    ELSE [self EXCEPT !.current_style = Last(self.previous_styles),
                      !.previous_styles = Front(@)]

\* Markdown(End(tag)) => match tag.  emphasis_level -= 1 at level 0 is an
\* overflow: a panic with overflow checks, 2^64 - 1 without them, written
\* -1 here (the level counts modulo 2^64)
style_text_End(self, tag, overflow_checks) ==
    IF tag.name \in {"CodeBlock", "Header", "Strikethrough", "Strong",
                     "Code"}
    THEN PopUnwrap(self)
    ELSE IF tag.name \in {"Emphasis", "BlockQuote"}
    THEN IF self.emphasis_level = 0 /\ overflow_checks
         THEN [self EXCEPT !.panicked = TRUE]
         ELSE PopUnwrap([self EXCEPT !.emphasis_level = @ - 1])
    ELSE self

\* the closure of style_text for one event: the next state of the closure
\* and the event it yields
style_text(self, e, overflow_checks) ==
    IF e.pass = "Markdown" /\ e.event.kind = "Start"
    THEN [self |-> style_text_Start(self, e.event.tag), yields |-> e]
    ELSE IF e.pass = "Markdown" /\ e.event.kind = "End"
    THEN [self |-> style_text_End(self, e.event.tag, overflow_checks),
          yields |-> e]
    ELSE IF e.pass = "Markdown" /\ e.event.kind = "Text"
    THEN [self |-> self,
          yields |-> PassPrint(StyledText(e.event.text,
                                          self.current_style))]
    ELSE [self |-> self, yields |-> e]

\* the tags of `o` in MachineOpenAfter's sense, for the passes
PassOpenAfter(o, e) ==
    IF e.pass = "Markdown" THEN MachineOpenAfter(o, e.event) ELSE o

\* what inject_margins and highlight_code hand to style_text
StyleTextInputs ==
    {Markdown(e) : e \in PassEvents} \cup {PassPrint(PrintNewline)}

\* the consumer pulls one event through style_text
On_style_text_event ==
    /\ style_pass # None
    /\ unwrap(style_pass).pc = "events"
    /\ \E e \in StyleTextInputs :
           LET p == unwrap(style_pass)
               r == style_text(p.self, e, p.overflow_checks)
               o == PassOpenAfter(p.open, e)
           IN  /\ e.pass = "Markdown" => PassLegal(p.open, e.event)
               /\ e.pass = "Print" => p.yields # <<e>>
               /\ Len(o) <= MaxInline + 2
               /\ style_pass' = Some([p EXCEPT
                                         !.self = r.self,
                                         !.open = o,
                                         !.yields = <<r.yields>>,
                                         !.pc = IF r.self.panicked
                                                THEN "panicked" ELSE @])
    /\ UNCHANGED <<machine, margin_pass, conversion>>
    /\ UNCHANGED tty_vars

\* the events have ended
On_style_text_end ==
    /\ style_pass # None
    /\ unwrap(style_pass).pc = "events"
    /\ unwrap(style_pass).open = <<>>
    /\ style_pass' = Some([unwrap(style_pass) EXCEPT !.pc = "done"])
    /\ UNCHANGED <<machine, margin_pass, conversion>>
    /\ UNCHANGED tty_vars

InitStyleText ==
    /\ NoPushTty
    /\ machine = None
    /\ style_pass \in {Some([self |-> style_text_new, open |-> <<>>,
                             yields |-> <<>>, pc |-> "events",
                             overflow_checks |-> b]) : b \in BOOLEAN}
    /\ margin_pass = None
    /\ conversion = None

NextStyleText == On_style_text_event \/ On_style_text_end

SpecStyleText == InitStyleText /\ [][NextStyleText]_vars

\* the tags whose Start pushes a style, and those that count as emphasis
PushingTagNames ==
    {"Header", "BlockQuote", "Strikethrough", "Strong", "Code", "CodeBlock",
     "Emphasis"}
NamedIn(o, names) == {i \in 1..Len(o) : o[i].name \in names}

\* C37: style_text keeps previous_styles balanced over every well-formed
\* stream: the pop never meets an empty stack, previous_styles holds one
\* style for each open Header, BlockQuote, Strikethrough, Strong, Code,
\* CodeBlock or Emphasis and none for any other tag, emphasis_level counts
\* the open Emphasis and BlockQuote tags, and when all tags are closed
\* current_style is the default style, previous_styles is empty and
\* emphasis_level is 0.
C37_StylesBalanced ==
    style_pass # None =>
        LET p == unwrap(style_pass)
        IN  /\ p.pc # "panicked"
            /\ ~p.self.panicked
            /\ Len(p.self.previous_styles)
                   = Cardinality(NamedIn(p.open, PushingTagNames))
            /\ p.self.emphasis_level
                   = Cardinality(NamedIn(p.open, {"Emphasis", "BlockQuote"}))
            /\ p.open = <<>> => p.self = style_text_new

\* the stream has ended with the End of a block quote, which popped the
\* style its Start had pushed and lowered emphasis_level to 0
C37_Witness ==
    /\ style_pass # None
    /\ unwrap(style_pass).pc = "done"
    /\ unwrap(style_pass).yields = <<Markdown(End(BlockQuote))>>

\* the tags before whose Start inject_margins puts a Newline
MarginTagNames ==
    {"Paragraph", "BlockQuote", "List", "Header", "CodeBlock", "Rule"}

\* the closure of flat_map without the arm for Rule
flat_map_arm_no_rule(e) ==
    IF /\ e.pass = "Markdown"
       /\ e.event.kind = "Start"
       /\ e.event.tag.name \in MarginTagNames \ {"Rule"}
    THEN <<PassPrint(PrintNewline), e>>
    ELSE <<e>>

\* the closure of flat_map: vec![Print(Newline), e] or vec![e]
flat_map_arm(e) ==
    IF /\ e.pass = "Markdown"
       /\ e.event.kind = "Start"
       /\ e.event.tag.name \in MarginTagNames
    THEN <<PassPrint(PrintNewline), e>>
    ELSE <<e>>

\* skip_while(|e| e is Print(Newline)) over the events `xs`: `skipping`
\* holds until the first event that is no Newline has passed
RECURSIVE skip_while(_, _, _)
skip_while(skipping, xs, out) ==
    IF xs = <<>> THEN [skipping |-> skipping, out |-> out]
    ELSE IF skipping /\ Head(xs) = PassPrint(PrintNewline)
    THEN skip_while(TRUE, Tail(xs), out)
    ELSE skip_while(FALSE, Tail(xs), Append(out, Head(xs)))

\* inject_margins for one more event of its input
inject_margins(self, e) ==
    LET r == skip_while(self.skipping, flat_map_arm(e), <<>>)
    IN  [skipping |-> r.skipping,
         input |-> Append(self.input, e),
         output |-> self.output \o r.out]

\* render hands inject_margins events.map(PassEvent::Markdown)
On_inject_margins_event ==
    /\ margin_pass # None
    /\ unwrap(margin_pass).pc = "events"
    /\ \E e \in PassEvents :
           LET p == unwrap(margin_pass)
               o == MachineOpenAfter(p.open, e)
           IN  /\ PassLegal(p.open, e)
               /\ Len(p.self.input) + Len(o) < MaxStream + 1
               /\ margin_pass' = Some([p EXCEPT
                                          !.self = inject_margins(@,
                                                       Markdown(e)),
                                          !.open = o])
    /\ UNCHANGED <<machine, style_pass, conversion>>
    /\ UNCHANGED tty_vars

\* the events have ended
On_inject_margins_end ==
    /\ margin_pass # None
    /\ unwrap(margin_pass).pc = "events"
    /\ unwrap(margin_pass).open = <<>>
    /\ margin_pass' = Some([unwrap(margin_pass) EXCEPT !.pc = "done"])
    /\ UNCHANGED <<machine, style_pass, conversion>>
    /\ UNCHANGED tty_vars

InitInjectMargins ==
    /\ NoPushTty
    /\ machine = None
    /\ style_pass = None
    /\ margin_pass = Some([self |-> [skipping |-> TRUE, input |-> <<>>,
                                     output |-> <<>>],
                           open |-> <<>>, pc |-> "events"])
    /\ conversion = None

NextInjectMargins == On_inject_margins_event \/ On_inject_margins_end

SpecInjectMargins == InitInjectMargins /\ [][NextInjectMargins]_vars

IsNewlinePrint(x) == x = PassPrint(PrintNewline)
IsMarginStart(x) ==
    /\ x.pass = "Markdown"
    /\ x.event.kind = "Start"
    /\ x.event.tag.name \in MarginTagNames
NotNewlinePrint(x) == ~IsNewlinePrint(x)

\* C38: the stream inject_margins yields never begins with a Newline; every
\* Start of Paragraph, BlockQuote, List, Header, CodeBlock or Rule after
\* the first yielded event comes right after exactly one Newline; the
\* yielded events other than Newline are the input events, all of them and
\* in their order.
C38_Margins ==
    margin_pass # None =>
        LET out == unwrap(margin_pass).self.output
        IN  /\ out # <<>> => ~IsNewlinePrint(out[1])
            /\ \A i \in 2..Len(out) :
                   IsMarginStart(out[i]) =>
                       /\ IsNewlinePrint(out[i - 1])
                       /\ i > 2 => ~IsNewlinePrint(out[i - 2])
            /\ SelectSeq(out, NotNewlinePrint)
                   = unwrap(margin_pass).self.input

\* a stream has ended in which a rule follows the first block
C38_Witness ==
    /\ margin_pass # None
    /\ unwrap(margin_pass).pc = "done"
    /\ \E i \in 3..Len(unwrap(margin_pass).self.output) :
           unwrap(margin_pass).self.output[i] = Markdown(Start(RuleTag))

----------------------------------------------------------------------------
(* src/terminal/ansi.rs: to_ansi. *)

\* syntect::highlighting::Color, FontStyle and Style
Channels == {0, 255}
Colors == [r : Channels, g : Channels, b : {0}, a : Channels]
FontStyles == SUBSET {"BOLD", "UNDERLINE", "ITALIC"}
HighlightingStyles ==
    [foreground : Colors, background : Colors, font_style : FontStyles]

\* ansi_term::Style::new(), with the fields to_ansi leaves alone
ansi_term_Style_new ==
    [foreground |-> None, background |-> None, is_bold |-> FALSE,
     is_dimmed |-> FALSE, is_italic |-> FALSE, is_underline |-> FALSE,
     is_blink |-> FALSE, is_reverse |-> FALSE, is_hidden |-> FALSE,
     is_strikethrough |-> FALSE]

\* ansi_term::Colour::RGB(color.r, color.g, color.b)
to_colour(color) == [rgb |-> <<color.r, color.g, color.b>>]

\* to_ansi that draws the background as well
to_ansi_with_background(style) ==
    [ansi_term_Style_new EXCEPT
        !.foreground = Some(to_colour(style.foreground)),
        !.background = Some(to_colour(style.background)),
        !.is_bold = "BOLD" \in style.font_style,
        !.is_italic = "ITALIC" \in style.font_style,
        !.is_underline = "UNDERLINE" \in style.font_style]

to_ansi(style) ==
    [ansi_term_Style_new EXCEPT
        !.foreground = Some(to_colour(style.foreground)),
        !.is_bold = "BOLD" \in style.font_style,
        !.is_italic = "ITALIC" \in style.font_style,
        !.is_underline = "UNDERLINE" \in style.font_style]

\* a caller converts the style of a highlighted region
On_to_ansi ==
    /\ conversion # None
    /\ unwrap(conversion).ansi = None
    /\ conversion' = Some([unwrap(conversion) EXCEPT
                              !.ansi = Some(to_ansi(unwrap(conversion).style))])
    /\ UNCHANGED <<machine, style_pass, margin_pass>>
    /\ UNCHANGED tty_vars

InitToAnsi ==
    /\ NoPushTty
    /\ machine = None
    /\ style_pass = None
    /\ margin_pass = None
    /\ conversion \in {Some([style |-> x, ansi |-> None]) :
                           x \in HighlightingStyles}

NextToAnsi == On_to_ansi

SpecToAnsi == InitToAnsi /\ [][NextToAnsi]_vars

\* C39: the ANSI style to_ansi makes of a highlighting style has the
\* red, green and blue of the input's foreground as its foreground, is
\* bold, italic and underlined exactly when the input's font style has
\* BOLD, ITALIC and UNDERLINE, has no background and leaves every other
\* attribute off.
C39_NoBackground ==
    conversion # None /\ is_some(unwrap(conversion).ansi) =>
        LET style == unwrap(conversion).style
            ansi == unwrap(unwrap(conversion).ansi)
        IN  /\ ansi.background = None
            /\ ansi.foreground
                   = Some([rgb |-> <<style.foreground.r, style.foreground.g,
                                     style.foreground.b>>])
            /\ ansi.is_bold <=> "BOLD" \in style.font_style
            /\ ansi.is_italic <=> "ITALIC" \in style.font_style
            /\ ansi.is_underline <=> "UNDERLINE" \in style.font_style
            /\ ~ansi.is_dimmed /\ ~ansi.is_blink /\ ~ansi.is_reverse
            /\ ~ansi.is_hidden /\ ~ansi.is_strikethrough

\* a bold, underlined style whose background differs from its foreground
\* has been converted
C39_Witness ==
    /\ conversion # None
    /\ is_some(unwrap(conversion).ansi)
    /\ unwrap(conversion).style.font_style = {"BOLD", "UNDERLINE"}
    /\ unwrap(conversion).style.background.r
           # unwrap(conversion).style.foreground.r

====
